---- MODULE Spec2Model ----
(***************************************************************************)
(* A model of the regulatory scanner of @holmdigital/engine: the browser    *)
(* session lifecycle of RegulatoryScanner.scan(), the resolution of raw     *)
(* axe violations against the @holmdigital/standards rule database          *)
(* (enrichResults), and the stats / score / compliance computation          *)
(* (generateResultPackage).                                                 *)
(***************************************************************************)
EXTENDS Integers, Sequences, FiniteSets, TLC

(***************************************************************************)
(* Bounds of the model.                                                     *)
(***************************************************************************)
\* longest violation list drawn from the full violation universe
MaxViolations == 3
\* longest violation list drawn from the one-per-tier pool (score inputs)
MaxPoolViolations == 5
\* longest violation list the rule engine returns inside a modelled scan()
MaxScanViolations == 1
\* number of scan() calls made one after another on the scanner
MaxCalls == 2

(***************************************************************************)
(* Values of the JavaScript runtime.                                        *)
(***************************************************************************)
\* null, as returned by a lookup that finds nothing (a string-valued field
\* that is null or undefined holds the string "null" or "undefined")
Null == [isNull |-> TRUE]

\* Array.prototype.join(sep) on an array of strings
RECURSIVE join(_, _)
join(arr, sep) ==
    IF Len(arr) = 0 THEN ""
    ELSE IF Len(arr) = 1 THEN arr[1]
    ELSE arr[1] \o sep \o join(Tail(arr), sep)

\* Array.prototype.includes
includes(arr, x) == \E i \in 1..Len(arr) : arr[i] = x

\* Array.prototype.some, for the test "t is included in other"
someIncluded(arr, other) == \E i \in 1..Len(arr) : includes(other, arr[i])

\* object spread {...base, ...over}: the keys of over win
Spread(base, over) ==
    [k \in (DOMAIN base) \cup (DOMAIN over) |->
        IF k \in DOMAIN over THEN over[k] ELSE base[k]]

(***************************************************************************)
(* @holmdigital/standards: the per-locale rule tables.  The JSON files are  *)
(* data of the package; the tables below are sample content of the          *)
(* ConvergenceRule schema, keyed by ruleId (ruleIds are unique per table),  *)
(* with independent content and ordering per locale.                        *)
(***************************************************************************)
Locales == {"en", "sv", "de", "fr", "es"}

DiggRisks == {"low", "medium", "high", "critical"}

\* HolmDigitalInsight: [key: string]: any, the interpretations of the other
\* languages, and the optional commonMistakes
localeInsight(lang, id) ==
    CASE lang = "de" -> [ germanInterpretation |-> "de:auslegung:" \o id ]
      [] lang = "fr" -> [ frenchInterpretation |-> "fr:interpretation:" \o id ]
      [] lang = "es" -> [ spanishInterpretation |-> "es:interpretacion:" \o id,
                          diggPrecedent |-> "es:precedent:" \o id ]
      [] OTHER -> [ commonMistakes |-> << lang \o ":mistake:" \o id >> ]

ConvergenceRule(lang, id, wcag, level, en, risk, impact, component, tags) ==
    [ ruleId |-> id,
      wcagCriteria |-> wcag,
      wcagLevel |-> level,
      wcagTitle |-> lang \o ":title:" \o wcag,
      wcagVersion |-> "2.1",
      en301549Criteria |-> en,
      en301549Title |-> lang \o ":title:" \o en,
      dosLagenApplies |-> TRUE,
      dosLagenReference |-> lang \o ":dos:" \o id,
      remediation |-> [ description |-> lang \o ":fix:" \o id,
                        technicalGuidance |-> lang \o ":guidance:" \o id,
                        component |-> component ],
      holmdigitalInsight |->
          Spread([ diggRisk |-> risk,
                   eaaImpact |-> impact,
                   swedishInterpretation |-> lang \o ":interpretation:" \o id,
                   priorityRationale |-> lang \o ":rationale:" \o id ],
                 localeInsight(lang, id)),
      testability |-> [ automated |-> TRUE,
                        requiresManualCheck |-> (risk = "medium"),
                        pseudoAutomation |-> (risk = "critical"),
                        complexity |-> IF risk = "low" THEN "simple" ELSE "complex" ],
      tags |-> tags ]

ruleImageAlt(lang) ==
    ConvergenceRule(lang, "image-alt", "1.1.1", "A", "9.1.1.1", "critical", "high",
                    "Image", <<"cat.text-alternatives", "wcag2a">>)

ruleColorContrast(lang) ==
    ConvergenceRule(lang, "color-contrast", "1.4.3", "AA", "9.1.4.3", "high", "medium",
                    "null", <<"cat.color", "wcag2aa">>)

ruleScrollable(lang) ==
    ConvergenceRule(lang, "scrollable-region-focusable", "2.1.1", "A", "9.2.1.1",
                    "medium", "critical", "null", <<"cat.keyboard", "wcag2a">>)

ruleMetaViewport(lang) ==
    ConvergenceRule(lang, "meta-viewport", "1.4.4", "AA", "9.1.4.4", "low", "low",
                    "null", <<"cat.sensory-and-visual-cues", "wcag2aa">>)

rulesEn == << ruleImageAlt("en"), ruleColorContrast("en"),
              ruleScrollable("en"), ruleMetaViewport("en") >>

rulesSv == << ruleScrollable("sv"), ruleMetaViewport("sv"),
              ruleColorContrast("sv"), ruleImageAlt("sv") >>

rulesDe == << ruleMetaViewport("de"), ruleScrollable("de") >>

rulesFr == << >>

rulesEs == << ruleColorContrast("es"), ruleImageAlt("es") >>

getData(lang) ==
    CASE lang = "sv" -> rulesSv
      [] lang = "de" -> rulesDe
      [] lang = "fr" -> rulesFr
      [] lang = "es" -> rulesEs
      [] OTHER -> rulesEn

\* the table getData(lang) returns: its switch falls to rulesEn by default
tableOf(lang) == IF lang \in Locales \ {"en"} THEN lang ELSE "en"

\* the rule tables as the module holds them once loaded: one array of rule
\* objects per locale
Tables == [ lang \in Locales |-> getData(lang) ]

\* Array.prototype.find on a rule table: the first rule with the id, or null
getConvergenceRule(ruleId, lang) ==
    LET data == getData(lang)
        hits == { i \in 1..Len(data) : data[i].ruleId = ruleId }
    IN  IF hits = {} THEN Null
        ELSE data[CHOOSE i \in hits : \A j \in hits : i <= j]

\* the object literal generateRegulatoryReport returns for a rule
reportOfRule(rule) ==
    [ ruleId |-> rule.ruleId,
      wcagCriteria |-> rule.wcagCriteria,
      en301549Criteria |-> rule.en301549Criteria,
      dosLagenReference |-> rule.dosLagenReference,
      diggRisk |-> rule.holmdigitalInsight.diggRisk,
      eaaImpact |-> rule.holmdigitalInsight.eaaImpact,
      remediation |-> rule.remediation,
      holmdigitalInsight |-> rule.holmdigitalInsight,
      testability |-> rule.testability ]

generateRegulatoryReport(ruleId, lang) ==
    LET rule == getConvergenceRule(ruleId, lang)
    IN  IF rule = Null THEN Null ELSE reportOfRule(rule)

searchRulesByTags(tags, lang) ==
    LET sharesTag(rule) == someIncluded(tags, rule.tags)
    IN  SelectSeq(getData(lang), sharesTag)

(***************************************************************************)
(* Raw violations of the rule engine (axe-core).                            *)
(***************************************************************************)
AxeNode(html, target, summary) ==
    [ html |-> html, target |-> target, failureSummary |-> summary ]

nodesOf(id) ==
    CASE id = "image-alt" ->
           << AxeNode("<img src=a.png>", <<"#gallery", "img:nth-child(1)">>, "Fix any: alt"),
              AxeNode("<img src=b.png>", <<"img.hero">>, "Fix any: aria-label") >>
      [] id = "color-contrast" ->
           << AxeNode("<p class=dim>", <<"iframe#ad", "body", "p.dim">>, "Fix any: contrast 2.1") >>
      [] OTHER ->
           << AxeNode("<div tabindex=3>", <<"div[tabindex]">>, "Fix all: tabindex") >>

ViolationIds == {"image-alt", "color-contrast", "meta-viewport", "tabindex"}

ViolationTags == { <<"cat.keyboard", "wcag2a">>,
                   <<"cat.color", "wcag2aa">>,
                   <<"best-practice">> }

Violation(id, tags) ==
    [ id |-> id,
      tags |-> tags,
      help |-> "help:" \o id,
      description |-> "desc:" \o id,
      nodes |-> nodesOf(id) ]

ViolationUniverse == { Violation(id, tags) : id \in ViolationIds, tags \in ViolationTags }

\* one violation per outcome tier under the English table: exact critical,
\* exact high, exact low, tag-resolved, unmatched (synthetic medium)
ViolationPool ==
    { Violation("image-alt", <<"cat.keyboard", "wcag2a">>),
      Violation("color-contrast", <<"cat.color", "wcag2aa">>),
      Violation("meta-viewport", <<"cat.color", "wcag2aa">>),
      Violation("tabindex", <<"cat.keyboard", "wcag2a">>),
      Violation("tabindex", <<"best-practice">>) }

SeqsUpTo(S, n) == UNION { [1..k -> S] : k \in 0..n }

(***************************************************************************)
(* RegulatoryScanner.enrichResults: the body of the loop over the           *)
(* violations, for one violation.                                           *)
(***************************************************************************)
\* (mutant) the tag search is tried before the rule id
matchReportTagsFirst(violation, lang) ==
    LET matchingRules == searchRulesByTags(violation.tags, lang)
    IN  IF Len(matchingRules) > 0
        THEN generateRegulatoryReport(matchingRules[1].ruleId, lang)
        ELSE generateRegulatoryReport(violation.id, lang)

\* (mutant) the report of the tag fallback is given the violation's id
matchReportKeepsViolationId(violation, lang) ==
    LET direct == generateRegulatoryReport(violation.id, lang)
    IN  IF direct # Null THEN direct
        ELSE LET matchingRules == searchRulesByTags(violation.tags, lang)
             IN  IF Len(matchingRules) > 0
                 THEN Spread(generateRegulatoryReport(matchingRules[1].ruleId, lang),
                             [ ruleId |-> violation.id ])
                 ELSE Null

\* 1. exact match on the rule id; 2. fallback: the first rule sharing a tag
matchReport(violation, lang) ==
    LET direct == generateRegulatoryReport(violation.id, lang)
    IN  IF direct # Null THEN direct
        ELSE LET matchingRules == searchRulesByTags(violation.tags, lang)
             IN  IF Len(matchingRules) > 0
                 THEN generateRegulatoryReport(matchingRules[1].ruleId, lang)
                 ELSE Null

failingNodes(violation) ==
    [ i \in 1..Len(violation.nodes) |->
        [ html |-> violation.nodes[i].html,
          target |-> join(violation.nodes[i].target, " "),
          failureSummary |-> violation.nodes[i].failureSummary ] ]

\* (mutant) the insight is replaced by the reasoning instead of extended
enrichedReportInsightReplaced(report, violation) ==
    Spread(report,
           [ holmdigitalInsight |-> [ reasoning |-> violation.help ],
             failingNodes |-> failingNodes(violation) ])

\* the report pushed when a rule was found: the report patched with the
\* violation's help text and failing nodes
enrichedReport(report, violation) ==
    Spread(report,
           [ holmdigitalInsight |->
                 Spread(report.holmdigitalInsight, [ reasoning |-> violation.help ]),
             failingNodes |-> failingNodes(violation) ])

\* (mutant) help text and description change places in the remediation
syntheticReportSwapped(violation) ==
    [ ruleId |-> violation.id,
      wcagCriteria |-> "Unknown",
      en301549Criteria |-> "Unknown",
      dosLagenReference |-> "Kräver manuell bedömning",
      diggRisk |-> "medium",
      eaaImpact |-> "medium",
      remediation |-> [ description |-> violation.description,
                        technicalGuidance |-> violation.help,
                        component |-> "undefined" ],
      holmdigitalInsight |->
          [ diggRisk |-> "medium",
            eaaImpact |-> "medium",
            swedishInterpretation |-> violation.help,
            priorityRationale |-> "Detta fel upptäcktes av scannern men saknar specifik mappning i HolmDigital-databasen." ],
      testability |-> [ automated |-> TRUE,
                        requiresManualCheck |-> FALSE,
                        pseudoAutomation |-> FALSE,
                        complexity |-> "moderate" ] ]

\* the generic report pushed when no rule was found
syntheticReport(violation) ==
    [ ruleId |-> violation.id,
      wcagCriteria |-> "Unknown",
      en301549Criteria |-> "Unknown",
      dosLagenReference |-> "Kräver manuell bedömning",
      diggRisk |-> "medium",
      eaaImpact |-> "medium",
      remediation |-> [ description |-> violation.help,
                        technicalGuidance |-> violation.description,
                        component |-> "undefined" ],
      holmdigitalInsight |->
          [ diggRisk |-> "medium",
            eaaImpact |-> "medium",
            swedishInterpretation |-> violation.help,
            priorityRationale |-> "Detta fel upptäcktes av scannern men saknar specifik mappning i HolmDigital-databasen." ],
      testability |-> [ automated |-> TRUE,
                        requiresManualCheck |-> FALSE,
                        pseudoAutomation |-> FALSE,
                        complexity |-> "moderate" ] ]

\* (mutant) a violation without a rule is skipped instead of reported
pushReportDropUnmatched(reports, violation, lang) ==
    LET report == matchReport(violation, lang)
    IN  IF report # Null
        THEN Append(reports, enrichedReport(report, violation))
        ELSE reports

\* what one iteration pushes onto reports
pushReport(reports, violation, lang) ==
    LET report == matchReport(violation, lang)
    IN  IF report # Null
        THEN Append(reports, enrichedReport(report, violation))
        ELSE Append(reports, syntheticReport(violation))

\* for (const violation of axeResults.violations) { ... }, from index k on
RECURSIVE enrichFrom(_, _, _, _)
enrichFrom(violationList, k, reports, lang) ==
    IF k > Len(violationList) THEN reports
    ELSE enrichFrom(violationList, k + 1, pushReport(reports, violationList[k], lang), lang)

\* enrichResults once lang = getCurrentLang() has been read
enrichResults(violationList, lang) == enrichFrom(violationList, 1, << >>, lang)

(***************************************************************************)
(* The same loop as loads and stores on objects: data holds the rule        *)
(* objects of the tables, reports the array the loop pushes onto.  A rule   *)
(* object is named by its table and its position in it.                     *)
(***************************************************************************)
\* getData(lang).find(r => r.ruleId === ruleId): the position of the first
\* rule with the id in the table, 0 for none
findRule(data, ruleId, lang) ==
    LET table == data[tableOf(lang)]
        hits == { i \in 1..Len(table) : table[i].ruleId = ruleId }
    IN  IF hits = {} THEN 0 ELSE CHOOSE i \in hits : \A j \in hits : i <= j

\* searchRulesByTags(tags, lang)[0]: the position of the first rule of the
\* table sharing a tag, 0 for none
firstRuleByTags(data, tags, lang) ==
    LET table == data[tableOf(lang)]
        hits == { i \in 1..Len(table) : someIncluded(tags, table[i].tags) }
    IN  IF hits = {} THEN 0 ELSE CHOOSE i \in hits : \A j \in hits : i <= j

\* the rule object whose fields generateRegulatoryReport put into the
\* report of the violation (report.holmdigitalInsight is that rule's own
\* insight object): by rule id first, else by the id of the first rule
\* sharing a tag; << >> when report is null
ruleOfReport(data, violation, lang) ==
    LET direct == findRule(data, violation.id, lang)
        byTag == firstRuleByTags(data, violation.tags, lang)
    IN  IF direct # 0 THEN << tableOf(lang), direct >>
        ELSE IF byTag # 0
             THEN << tableOf(lang),
                     findRule(data, data[tableOf(lang)][byTag].ruleId, lang) >>
             ELSE << >>

\* (mutant) the help text is stored into report.holmdigitalInsight, which
\* is the insight object of the rule, and the report is pushed
pushOnHeapPatchedInPlace(heap, violation, lang) ==
    LET ref == ruleOfReport(heap.data, violation, lang)
    IN  IF ref = << >>
        THEN [heap EXCEPT !.reports = Append(@, syntheticReport(violation))]
        ELSE LET insight == Spread(heap.data[ref[1]][ref[2]].holmdigitalInsight,
                                   [ reasoning |-> violation.help ])
                 patched == [heap.data EXCEPT ![ref[1]][ref[2]].holmdigitalInsight = insight]
             IN  [ data |-> patched,
                   reports |-> Append(heap.reports,
                                      Spread(reportOfRule(patched[ref[1]][ref[2]]),
                                             [ failingNodes |-> failingNodes(violation) ])) ]

\* one iteration: reports.push of a new object literal; the two spreads
\* read the report and the rule's insight object, the stores go to the new
\* literal and to the reports array
pushOnHeap(heap, violation, lang) ==
    LET ref == ruleOfReport(heap.data, violation, lang)
    IN  IF ref = << >>
        THEN [heap EXCEPT !.reports = Append(@, syntheticReport(violation))]
        ELSE [heap EXCEPT !.reports =
                 Append(@, enrichedReport(reportOfRule(heap.data[ref[1]][ref[2]]),
                                          violation))]

RECURSIVE enrichOnHeapFrom(_, _, _, _)
enrichOnHeapFrom(violationList, k, heap, lang) ==
    IF k > Len(violationList) THEN heap
    ELSE enrichOnHeapFrom(violationList, k + 1,
                          pushOnHeap(heap, violationList[k], lang), lang)

\* enrichResults run on the rule objects data: the reports it returns and
\* the rule objects it leaves
enrichOnHeap(data, violationList, lang) ==
    enrichOnHeapFrom(violationList, 1, [ data |-> data, reports |-> << >> ], lang)

(***************************************************************************)
(* RegulatoryScanner.generateResultPackage                                  *)
(***************************************************************************)
\* reports.filter(r => r.holmdigitalInsight.diggRisk === risk).length
countRisk(reports, risk) ==
    Len(SelectSeq(reports, LAMBDA r : r.holmdigitalInsight.diggRisk = risk))

\* (mutant) total counts the distinct rule ids instead of the reports
statsOfDistinctRules(reports) ==
    [ critical |-> countRisk(reports, "critical"),
      high |-> countRisk(reports, "high"),
      medium |-> countRisk(reports, "medium"),
      low |-> countRisk(reports, "low"),
      total |-> Cardinality({ reports[i].ruleId : i \in 1..Len(reports) }) ]

statsOf(reports) ==
    [ critical |-> countRisk(reports, "critical"),
      high |-> countRisk(reports, "high"),
      medium |-> countRisk(reports, "medium"),
      low |-> countRisk(reports, "low"),
      total |-> Len(reports) ]

weightedScore(stats) ==
    (stats.critical * 25) + (stats.high * 15) + (stats.medium * 5) + (stats.low * 1)

\* (mutant) the floor at 0 is missing
scoreOfUnclamped(stats) == 100 - weightedScore(stats)

\* (mutant) Math.abs in the place of Math.max(0, ...)
scoreOfAbs(stats) ==
    IF 100 - weightedScore(stats) > 0
    THEN 100 - weightedScore(stats)
    ELSE weightedScore(stats) - 100

\* Math.max(0, 100 - weightedScore)
scoreOf(stats) ==
    IF 100 - weightedScore(stats) > 0 THEN 100 - weightedScore(stats) ELSE 0

\* (mutant) PASS as long as nothing critical or high was found
complianceStatusOfLenient(stats) ==
    IF stats.critical = 0 /\ stats.high = 0 THEN "PASS" ELSE "FAIL"

complianceStatusOf(stats) == IF stats.total = 0 THEN "PASS" ELSE "FAIL"

generateResultPackage(reports, url, now) ==
    LET stats == statsOf(reports)
    IN  [ url |-> url,
          timestamp |-> now,
          reports |-> reports,
          stats |-> stats,
          score |-> scoreOf(stats),
          complianceStatus |-> complianceStatusOf(stats) ]

(***************************************************************************)
(* The page's DOM, as the script VirtualDOMBuilder.build injects sees it.   *)
(***************************************************************************)
\* nodes of the documents given to build
MaxBodyChildren == 2
\* largest maxDepth given to build
MaxDepthOption == 3

\* the DOMRect of an element that getBoundingClientRect returns
DOMRect(x, y, width, height) ==
    [ x |-> x, y |-> y, width |-> width, height |-> height,
      top |-> y, left |-> x, bottom |-> y + height, right |-> x + width ]

\* a text node
TextNode(data) ==
    [ nodeType |-> "TEXT_NODE", data |-> data, childNodes |-> << >> ]

\* a shadow root: a document fragment with the mode given to attachShadow
ShadowRoot(mode, childNodes) ==
    [ nodeType |-> "DOCUMENT_FRAGMENT_NODE", mode |-> mode, childNodes |-> childNodes ]

\* an element; attachedShadow is the shadow root attached to it, or null
Element(tagName, attributes, childNodes, attachedShadow) ==
    [ nodeType |-> "ELEMENT_NODE",
      tagName |-> tagName,
      attributes |-> attributes,
      childNodes |-> childNodes,
      attachedShadow |-> attachedShadow,
      boundingClientRect |-> DOMRect(8, 16, 100 + Len(childNodes), 20),
      style |-> ("color" :> "rgb(0, 0, 0)") @@ ("display" :> "block")
                  @@ ("background-color" :> "rgba(0, 0, 0, 0)") ]

Attr(name, value) == [ name |-> name, value |-> value ]

\* String.prototype.toLowerCase on the tag names of the documents
toLowerCase(str) ==
    CASE str = "BODY" -> "body"
      [] str = "DIV" -> "div"
      [] str = "P" -> "p"
      [] str = "SPAN" -> "span"
      [] str = "BUTTON" -> "button"
      [] str = "X-CARD" -> "x-card"
      [] str = "X-MENU" -> "x-menu"
      [] str = "X-TABS" -> "x-tabs"
      [] OTHER -> str

\* Element.shadowRoot: the attached shadow root when its mode is open, null
\* when the element has none or its mode is closed
shadowRoot(element) ==
    IF element.attachedShadow = Null THEN Null
    ELSE IF element.attachedShadow.mode = "open" THEN element.attachedShadow
    ELSE Null

\* Node.textContent: the text of the node's descendants, in document order
RECURSIVE textContent(_)
RECURSIVE textContentOf(_, _)
textContentOf(childNodes, k) ==
    IF k > Len(childNodes) THEN ""
    ELSE textContent(childNodes[k]) \o textContentOf(childNodes, k + 1)

textContent(node) ==
    IF node.nodeType = "TEXT_NODE" THEN node.data
    ELSE textContentOf(node.childNodes, 1)

\* subtrees the documents are made of
PlainParagraph ==
    Element("P", << Attr("class", "lead") >>, << TextNode("hello") >>, Null)

OpenHost ==
    Element("X-CARD", << Attr("id", "card"), Attr("role", "region") >>,
            << TextNode("slotted: "), Element("SPAN", << >>, << TextNode("title") >>, Null) >>,
            ShadowRoot("open",
                       << Element("DIV", << Attr("part", "frame") >>,
                                  << Element("P", << >>, << >>, Null) >>, Null) >>))

ClosedHost ==
    Element("X-MENU", << >>,
            << Element("SPAN", << >>, << >>, Null) >>,
            ShadowRoot("closed", << Element("BUTTON", << >>, << TextNode("open") >>, Null) >>))

DeepChain ==
    Element("DIV", << Attr("id", "a"), Attr("id", "b") >>,
            << Element("DIV", << >>,
                       << Element("DIV", << >>,
                                  << Element("SPAN", << >>, << TextNode("deep") >>, Null) >>,
                                  Null) >>,
                       Null) >>,
            Null)

NestedHosts ==
    Element("X-TABS", << >>, << >>,
            ShadowRoot("open",
                       << Element("X-CARD", << >>, << >>,
                                  ShadowRoot("open",
                                             << Element("P", << >>, << >>, Null) >>)) >>))

Components ==
    { PlainParagraph, TextNode("loose text"), OpenHost, ClosedHost, DeepChain, NestedHosts }

\* the documents: a body with up to MaxBodyChildren subtrees, and a document
\* without a body (a frameset)
Documents ==
    { [ body |-> Element("BODY", << >>, childNodes, Null) ] :
          childNodes \in SeqsUpTo(Components, MaxBodyChildren) }
        \cup { [ body |-> Null ] }

\* VirtualDOMConfig: both keys are optional
NoConfig == [ k \in {} |-> 0 ]

VirtualDOMConfigs ==
    { Spread(depthPart, stylePart) :
          depthPart \in { NoConfig } \cup { [ maxDepth |-> d ] : d \in 0..MaxDepthOption },
          stylePart \in { NoConfig,
                            [ includeComputedStyle |-> << "color", "background-color" >> ] } }

(***************************************************************************)
(* VirtualDOMBuilder.build: the script evaluated in the page.               *)
(***************************************************************************)
\* (mutant) the counter is incremented after it is read: nodeIdCounter++
generateIdPostIncrement(n) == "vn-" \o ToString(n - 1)

\* generateId once nodeIdCounter has been incremented to n
generateId(n) == "vn-" \o ToString(n)

\* getAttributes: attrs[attr.name] = attr.value for each attribute in turn
getAttributes(element) ==
    [ name \in { element.attributes[i].name : i \in 1..Len(element.attributes) } |->
        LET last == CHOOSE i \in 1..Len(element.attributes) :
                        /\ element.attributes[i].name = name
                        /\ \A j \in 1..Len(element.attributes) :
                              element.attributes[j].name = name => j <= i
        IN  element.attributes[last].value ]

getRect(element) ==
    [ x |-> element.boundingClientRect.x,
      y |-> element.boundingClientRect.y,
      width |-> element.boundingClientRect.width,
      height |-> element.boundingClientRect.height ]

\* CSSStyleDeclaration.getPropertyValue
getPropertyValue(style, prop) == IF prop \in DOMAIN style THEN style[prop] ELSE ""

\* config.maxDepth is truthy: it is given and is not 0
maxDepthIsTruthy(config) == "maxDepth" \in DOMAIN config /\ config.maxDepth # 0

\* config.maxDepth && depth > config.maxDepth
exceedsMaxDepth(config, depth) ==
    maxDepthIsTruthy(config) /\ depth > config.maxDepth

\* vNode.children.push(shadowVNode)
pushShadow(vNode, shadowVNode) ==
    [vNode EXCEPT !.children = Append(@, shadowVNode)]

\* traverse(node, parent, depth) with nodeIdCounter = counter at the call:
\* the virtual node (or null) and the counter's value at the return
RECURSIVE traverse(_, _, _, _, _)
RECURSIVE traverseChildNodes(_, _, _, _, _, _)

\* Array.from(element.childNodes).forEach(...), from index k on
traverseChildNodes(childNodes, k, vNode, depth, counter, config) ==
    IF k > Len(childNodes) THEN [ vNode |-> vNode, counter |-> counter ]
    ELSE IF childNodes[k].nodeType = "ELEMENT_NODE"
    THEN LET child == traverse(childNodes[k], vNode.nodeId, depth + 1, counter, config)
         IN  IF child.vNode # Null
             THEN traverseChildNodes(
                      childNodes, k + 1,
                      [vNode EXCEPT !.children = Append(@, child.vNode)],
                      depth, child.counter, config)
             ELSE traverseChildNodes(childNodes, k + 1, vNode, depth,
                                     child.counter, config)
    ELSE traverseChildNodes(childNodes, k + 1, vNode, depth, counter, config)

traverse(node, parentId, depth, counter, config) ==
    IF node = Null THEN [ vNode |-> Null, counter |-> counter ]
    ELSE IF exceedsMaxDepth(config, depth) THEN [ vNode |-> Null, counter |-> counter ]
    ELSE IF node.nodeType \notin {"ELEMENT_NODE", "DOCUMENT_FRAGMENT_NODE"}
    THEN [ vNode |-> Null, counter |-> counter ]
    ELSE
      LET isShadowRoot == node.nodeType = "DOCUMENT_FRAGMENT_NODE"
          created ==
              [ nodeId |-> generateId(counter + 1),
                tagName |-> IF isShadowRoot THEN "#shadow-root"
                            ELSE toLowerCase(node.tagName),
                attributes |-> IF ~isShadowRoot THEN getAttributes(node) ELSE NoConfig,
                children |-> << >>,
                parentId |-> parentId,
                isShadowRoot |-> isShadowRoot,
                rect |-> IF ~isShadowRoot THEN getRect(node)
                         ELSE [ x |-> 0, y |-> 0, width |-> 0, height |-> 0 ],
                computedStyle |->
                    IF ~isShadowRoot /\ "includeComputedStyle" \in DOMAIN config
                    THEN [ prop \in { config.includeComputedStyle[i] :
                                        i \in 1..Len(config.includeComputedStyle) } |->
                             getPropertyValue(node.style, prop) ]
                    ELSE "undefined",
                textContent |-> IF textContent(node) # "" THEN textContent(node)
                                ELSE "undefined" ]
          vNode ==
              IF isShadowRoot /\ node.mode # ""
              THEN Spread(created, [ shadowMode |-> node.mode ])
              ELSE created
          light == traverseChildNodes(node.childNodes, 1, vNode, depth, counter + 1, config)
      IN  IF ~isShadowRoot /\ shadowRoot(node) # Null
          THEN LET shadow == traverse(shadowRoot(node), vNode.nodeId, depth + 1,
                                      light.counter, config)
               IN  [ vNode |-> IF shadow.vNode # Null
                               THEN pushShadow(light.vNode, shadow.vNode)
                               ELSE light.vNode,
                     counter |-> shadow.counter ]
          ELSE light

\* what build(config) resolves to for the document of the page
build(document, config) ==
    IF document.body = Null
    THEN [ nodeId |-> "root-fallback",
           tagName |-> "body",
           attributes |-> NoConfig,
           children |-> << >>,
           rect |-> [ x |-> 0, y |-> 0, width |-> 0, height |-> 0 ] ]
    ELSE traverse(document.body, "undefined", 0, 0, config).vNode

(***************************************************************************)
(* State.                                                                   *)
(***************************************************************************)
VARIABLES
    currentLang,        \* i18n: let currentLang
    options,            \* RegulatoryScanner.options
    browser,            \* RegulatoryScanner.browser: a process handle, or Null
    procs,              \* the browser processes launched so far, by handle
    frame,              \* the locals and position of each scan() call
    axeResults,         \* resolution alone: the raw violations given
    langRead,           \* resolution alone: the value of getCurrentLang()
    regulatoryReports,  \* resolution alone: what enrichResults returned
    resultPackage,      \* resolution alone: what generateResultPackage returned
    step,               \* resolution alone: "violations", "reports", "result", "again"
    storedRules,        \* the rule objects stored into since the tables were loaded
    cli,                \* the hd-a11y-scan process: its options, position, exit code
    vdom                \* build alone: the document, the config, the tree built

scannerVars == << currentLang, options, browser, procs, frame >>
resolveVars == << axeResults, langRead, regulatoryReports, resultPackage, step, storedRules >>
cliVars == << cli >>
vdomVars == << vdom >>
vars == << currentLang, options, browser, procs, frame,
           axeResults, langRead, regulatoryReports, resultPackage, step, storedRules,
           cli, vdom >>

\* the rule objects of data that differ from what was loaded, named by
\* table and position
storesOf(data) ==
    [ ref \in { r \in UNION { {lang} \X (1..Len(Tables[lang])) : lang \in Locales } :
                  data[r[1]][r[2]] # Tables[r[1]][r[2]] } |->
        data[ref[1]][ref[2]] ]

\* the rule objects of the standards package as they are now: as loaded,
\* but for those stored into since, named by table and position
database ==
    [ lang \in Locales |->
        [ k \in 1..Len(Tables[lang]) |->
            IF << lang, k >> \in DOMAIN storedRules
            THEN storedRules[<< lang, k >>] ELSE Tables[lang][k] ] ]

ScanUrl == "https://example.com"
Now == "2026-01-01T00:00:00.000Z"

(***************************************************************************)
(* i18n                                                                     *)
(***************************************************************************)
\* the keys every object literal inherits from Object.prototype
ObjectPrototypeKeys ==
    { "constructor", "hasOwnProperty", "isPrototypeOf", "propertyIsEnumerable",
      "toLocaleString", "toString", "valueOf", "__proto__" }

\* locales[lang] is truthy: locales is an object literal with the keys en,
\* sv, de, fr and es, and the lookup also finds what it inherits
localesHas(lang) == lang \in Locales \cup ObjectPrototypeKeys

\* what setLanguage(code) leaves in currentLang
setLanguage(code) == IF localesHas(code) THEN code ELSE "en"

getCurrentLang == currentLang

(***************************************************************************)
(* RegulatoryScanner: instances, browser processes and scan() calls.        *)
(***************************************************************************)
Scanners == {"s1", "s2"}
Calls == 1..MaxCalls

\* this.browser = null
NoBrowser == 0

\* the scanner options: those given to the constructor over the defaults
ScannerOptions(viewport) ==
    [ headless |-> TRUE, standard |-> "dos-lagen", silent |-> FALSE,
      url |-> ScanUrl, viewport |-> viewport ]

Viewports == { Null, [ width |-> 375, height |-> 667 ] }

\* HtmlValidator.validate: the results it may give for the page content
ValidationResults ==
    { [ valid |-> TRUE, errors |-> << >> ],
      [ valid |-> FALSE,
        errors |-> << [ rule |-> "close-order", message |-> "Unclosed element",
                        line |-> 3, column |-> 7, selector |-> "undefined" ] >> ] }

\* the violation lists the rule engine may return inside a modelled scan():
\* of a violation with a rule of its id (critical in every table that has
\* it, resolved by tag in the German one) and of one resolved by tag
ScanViolationPool ==
    { Violation("image-alt", <<"cat.keyboard", "wcag2a">>),
      Violation("tabindex", <<"cat.color", "wcag2aa">>) }

ScanViolationLists == SeqsUpTo(ScanViolationPool, MaxScanViolations)

\* the language codes a caller passes to setLanguage while scans run
LanguageRequests == {"en", "sv", "de", "tlh", "constructor"}

\* the locals of a call (scan() or close()) that has not started
IdleFrame ==
    [ pc |-> "idle",
      op |-> "scan",               \* the method called: "scan" or "close"
      scanner |-> "s1",
      launched |-> NoBrowser,      \* the process this call's initBrowser started
      page |-> FALSE,              \* const page
      pageIn |-> NoBrowser,        \* the process this.browser.newPage() was called on
      retries |-> 0,               \* let retries
      gotos |-> 0,                 \* page.goto calls made so far
      backoffs |-> 0,              \* 2s timers of the retry loop that have fired
      navigated |-> FALSE,         \* a page.goto call has resolved
      pageContent |-> FALSE,       \* const pageContent has been captured
      htmlValidation |-> Null,     \* const htmlValidation
      axeResults |-> Null,         \* const axeResults
      lang |-> "",                 \* enrichResults: const lang, "" before it is read
      regulatoryReports |-> << >>, \* const regulatoryReports
      result |-> Null,             \* the value scan() returns
      error |-> "",                \* the error scan() throws, "" for none
      closing |-> NoBrowser,       \* the process close() is waiting for
      console |-> << >> ]          \* the lines written by this.log

F(c) == frame[c]
This(c) == frame[c].scanner

\* this.log(message)
log(c, message) ==
    IF options[This(c)].silent THEN F(c).console ELSE Append(F(c).console, message)

\* an awaited operation rejects (or a statement throws) inside the try block:
\* control passes to the finally block with the error pending
Throw(c, err) ==
    frame' = [frame EXCEPT ![c].error = err, ![c].pc = "finally"]

Goto(c, label) == frame' = [frame EXCEPT ![c].pc = label]

\* no other scan() call is between its start and the moment its caller has
\* taken its outcome: calls are made one after another
NoCallInFlight == \A d \in Calls : frame[d].pc \in {"idle", "done"}

\* scan() is called: it runs up to puppeteer.launch in initBrowser
StartScan(c) ==
    /\ F(c).pc = "idle"
    /\ NoCallInFlight
    /\ \A d \in Calls : d < c => frame[d].pc = "done"
    /\ frame' = [frame EXCEPT ![c] = [IdleFrame EXCEPT !.pc = "launch", !.scanner = "s1"]]
    /\ UNCHANGED << currentLang, options, browser, procs >>
    /\ UNCHANGED resolveVars
    /\ UNCHANGED cliVars
    /\ UNCHANGED vdomVars

\* close() is called from outside scan() (as the CLI does in its finally
\* block): the call runs the body that scan()'s finally block awaits
StartClose(c) ==
    /\ F(c).pc = "idle"
    /\ NoCallInFlight
    /\ \A d \in Calls : d < c => frame[d].pc = "done"
    /\ frame' = [frame EXCEPT ![c] = [IdleFrame EXCEPT !.pc = "finally",
                                                       !.op = "close",
                                                       !.scanner = "s1"]]
    /\ UNCHANGED << currentLang, options, browser, procs >>
    /\ UNCHANGED resolveVars
    /\ UNCHANGED cliVars
    /\ UNCHANGED vdomVars

\* (mutant) the browser handle is a static field, shared by the instances
LaunchOkSharedHandle(c) ==
    /\ F(c).pc = "launch"
    /\ procs' = Append(procs, [ open |-> TRUE, closeCalls |-> 0, owner |-> This(c) ])
    /\ browser' = [ s \in Scanners |-> Len(procs) + 1 ]
    /\ frame' = [frame EXCEPT ![c].launched = Len(procs) + 1, ![c].pc = "getPage"]
    /\ UNCHANGED << currentLang, options >>
    /\ UNCHANGED resolveVars
    /\ UNCHANGED cliVars
    /\ UNCHANGED vdomVars

\* initBrowser: puppeteer.launch resolves and the handle is stored
LaunchOk(c) ==
    /\ F(c).pc = "launch"
    /\ procs' = Append(procs, [ open |-> TRUE, closeCalls |-> 0, owner |-> This(c) ])
    /\ browser' = [browser EXCEPT ![This(c)] = Len(procs) + 1]
    /\ frame' = [frame EXCEPT ![c].launched = Len(procs) + 1, ![c].pc = "getPage"]
    /\ UNCHANGED << currentLang, options >>
    /\ UNCHANGED resolveVars
    /\ UNCHANGED cliVars
    /\ UNCHANGED vdomVars

LaunchFail(c) ==
    /\ F(c).pc = "launch"
    /\ Throw(c, "launch")
    /\ UNCHANGED << currentLang, options, browser, procs >>
    /\ UNCHANGED resolveVars
    /\ UNCHANGED cliVars
    /\ UNCHANGED vdomVars

\* getPage: the guard on this.browser, then browser.newPage is requested
GetPage(c) ==
    /\ F(c).pc = "getPage"
    /\ IF browser[This(c)] = NoBrowser
       THEN Throw(c, "Browser not initialized")
       ELSE frame' = [frame EXCEPT ![c].pageIn = browser[This(c)],
                                   ![c].pc = "newPage"]
    /\ UNCHANGED << currentLang, options, browser, procs >>
    /\ UNCHANGED resolveVars
    /\ UNCHANGED cliVars
    /\ UNCHANGED vdomVars

NewPageOk(c) ==
    /\ F(c).pc = "newPage"
    /\ frame' = [frame EXCEPT ![c].page = TRUE, ![c].pc = "setUserAgent"]
    /\ UNCHANGED << currentLang, options, browser, procs >>
    /\ UNCHANGED resolveVars
    /\ UNCHANGED cliVars
    /\ UNCHANGED vdomVars

NewPageFail(c) ==
    /\ F(c).pc = "newPage"
    /\ Throw(c, "newPage")
    /\ UNCHANGED << currentLang, options, browser, procs >>
    /\ UNCHANGED resolveVars
    /\ UNCHANGED cliVars
    /\ UNCHANGED vdomVars

\* page.setUserAgent resolves; the viewport is set only when one is given
SetUserAgentOk(c) ==
    /\ F(c).pc = "setUserAgent"
    /\ IF options[This(c)].viewport # Null
       THEN Goto(c, "setViewport")
       ELSE frame' = [frame EXCEPT ![c].retries = 3, ![c].pc = "goto"]
    /\ UNCHANGED << currentLang, options, browser, procs >>
    /\ UNCHANGED resolveVars
    /\ UNCHANGED cliVars
    /\ UNCHANGED vdomVars

SetUserAgentFail(c) ==
    /\ F(c).pc = "setUserAgent"
    /\ Throw(c, "setUserAgent")
    /\ UNCHANGED << currentLang, options, browser, procs >>
    /\ UNCHANGED resolveVars
    /\ UNCHANGED cliVars
    /\ UNCHANGED vdomVars

SetViewportOk(c) ==
    /\ F(c).pc = "setViewport"
    /\ frame' = [frame EXCEPT ![c].retries = 3, ![c].pc = "goto"]
    /\ UNCHANGED << currentLang, options, browser, procs >>
    /\ UNCHANGED resolveVars
    /\ UNCHANGED cliVars
    /\ UNCHANGED vdomVars

SetViewportFail(c) ==
    /\ F(c).pc = "setViewport"
    /\ Throw(c, "setViewport")
    /\ UNCHANGED << currentLang, options, browser, procs >>
    /\ UNCHANGED resolveVars
    /\ UNCHANGED cliVars
    /\ UNCHANGED vdomVars

\* the retry loop: page.goto resolves, break
GotoOk(c) ==
    /\ F(c).pc = "goto"
    /\ F(c).retries > 0
    /\ frame' = [frame EXCEPT ![c].gotos = @ + 1,
                              ![c].navigated = TRUE,
                              ![c].pc = "waitForNetworkIdle"]
    /\ UNCHANGED << currentLang, options, browser, procs >>
    /\ UNCHANGED resolveVars
    /\ UNCHANGED cliVars
    /\ UNCHANGED vdomVars

\* the error of the n-th page.goto call
GotoError(n) == "goto#" \o ToString(n)

\* (mutant) the error is not rethrown when the retries are used up: the
\* loop ends and the scan goes on
GotoFailNoRethrow(c) ==
    /\ F(c).pc = "goto"
    /\ F(c).retries > 0
    /\ frame' = [frame EXCEPT ![c].gotos = @ + 1,
                              ![c].retries = @ - 1,
                              ![c].console =
                                  log(c, "Navigation failed, retrying... ("
                                         \o ToString(F(c).retries - 1)
                                         \o " attempts left)"),
                              ![c].pc = IF F(c).retries - 1 = 0
                                        THEN "waitForNetworkIdle" ELSE "backoff"]
    /\ UNCHANGED << currentLang, options, browser, procs >>
    /\ UNCHANGED resolveVars
    /\ UNCHANGED cliVars
    /\ UNCHANGED vdomVars

\* (mutant) the loop tries again at once, without the 2s timer
GotoFailNoBackoff(c) ==
    /\ F(c).pc = "goto"
    /\ F(c).retries > 0
    /\ IF F(c).retries - 1 = 0
       THEN frame' = [frame EXCEPT ![c].gotos = @ + 1,
                                   ![c].retries = @ - 1,
                                   ![c].error = GotoError(F(c).gotos + 1),
                                   ![c].pc = "finally"]
       ELSE frame' = [frame EXCEPT ![c].gotos = @ + 1,
                                   ![c].retries = @ - 1,
                                   ![c].console =
                                       log(c, "Navigation failed, retrying... ("
                                              \o ToString(F(c).retries - 1)
                                              \o " attempts left)"),
                                   ![c].pc = "goto"]
    /\ UNCHANGED << currentLang, options, browser, procs >>
    /\ UNCHANGED resolveVars
    /\ UNCHANGED cliVars
    /\ UNCHANGED vdomVars

\* the retry loop: page.goto rejects; retries--, rethrow at 0, else log and
\* start the 2s timer
GotoFail(c) ==
    /\ F(c).pc = "goto"
    /\ F(c).retries > 0
    /\ IF F(c).retries - 1 = 0
       THEN frame' = [frame EXCEPT ![c].gotos = @ + 1,
                                   ![c].retries = @ - 1,
                                   ![c].error = GotoError(F(c).gotos + 1),
                                   ![c].pc = "finally"]
       ELSE frame' = [frame EXCEPT ![c].gotos = @ + 1,
                                   ![c].retries = @ - 1,
                                   ![c].console =
                                       log(c, "Navigation failed, retrying... ("
                                              \o ToString(F(c).retries - 1)
                                              \o " attempts left)"),
                                   ![c].pc = "backoff"]
    /\ UNCHANGED << currentLang, options, browser, procs >>
    /\ UNCHANGED resolveVars
    /\ UNCHANGED cliVars
    /\ UNCHANGED vdomVars

\* the 2s timer fires; the loop tests retries > 0 and tries again
BackoffDone(c) ==
    /\ F(c).pc = "backoff"
    /\ frame' = [frame EXCEPT ![c].backoffs = @ + 1, ![c].pc = "goto"]
    /\ UNCHANGED << currentLang, options, browser, procs >>
    /\ UNCHANGED resolveVars
    /\ UNCHANGED cliVars
    /\ UNCHANGED vdomVars

WaitForNetworkIdleOk(c) ==
    /\ F(c).pc = "waitForNetworkIdle"
    /\ Goto(c, "content")
    /\ UNCHANGED << currentLang, options, browser, procs >>
    /\ UNCHANGED resolveVars
    /\ UNCHANGED cliVars
    /\ UNCHANGED vdomVars

\* (mutant) the rejection of the wait is not caught
WaitForNetworkIdleFailThrows(c) ==
    /\ F(c).pc = "waitForNetworkIdle"
    /\ Throw(c, "waitForNetworkIdle")
    /\ UNCHANGED << currentLang, options, browser, procs >>
    /\ UNCHANGED resolveVars
    /\ UNCHANGED cliVars
    /\ UNCHANGED vdomVars

\* the wait rejects (timeout): caught, logged, the scan goes on
WaitForNetworkIdleFail(c) ==
    /\ F(c).pc = "waitForNetworkIdle"
    /\ frame' = [frame EXCEPT ![c].console =
                                  log(c, "Network busy, proceeding with scan anyway..."),
                              ![c].pc = "content"]
    /\ UNCHANGED << currentLang, options, browser, procs >>
    /\ UNCHANGED resolveVars
    /\ UNCHANGED cliVars
    /\ UNCHANGED vdomVars

ContentOk(c) ==
    /\ F(c).pc = "content"
    /\ frame' = [frame EXCEPT ![c].pageContent = TRUE, ![c].pc = "validate"]
    /\ UNCHANGED << currentLang, options, browser, procs >>
    /\ UNCHANGED resolveVars
    /\ UNCHANGED cliVars
    /\ UNCHANGED vdomVars

\* (mutant) the rejection of page.content() is caught and the scan goes on
ContentFailIgnored(c) ==
    /\ F(c).pc = "content"
    /\ Goto(c, "validate")
    /\ UNCHANGED << currentLang, options, browser, procs >>
    /\ UNCHANGED resolveVars
    /\ UNCHANGED cliVars
    /\ UNCHANGED vdomVars

ContentFail(c) ==
    /\ F(c).pc = "content"
    /\ Throw(c, "content")
    /\ UNCHANGED << currentLang, options, browser, procs >>
    /\ UNCHANGED resolveVars
    /\ UNCHANGED cliVars
    /\ UNCHANGED vdomVars

\* htmlValidator.validate resolves; a result that is not valid is logged
ValidateOk(c) ==
    /\ F(c).pc = "validate"
    /\ \E v \in ValidationResults :
          frame' = [frame EXCEPT
                      ![c].htmlValidation = v,
                      ![c].console =
                          IF ~v.valid
                          THEN log(c, "HTML Validation: Found "
                                      \o ToString(Len(v.errors)) \o " structural issues.")
                          ELSE F(c).console,
                      ![c].pc = "build"]
    /\ UNCHANGED << currentLang, options, browser, procs >>
    /\ UNCHANGED resolveVars
    /\ UNCHANGED cliVars
    /\ UNCHANGED vdomVars

\* htmlValidator.validate rejects: nothing catches it inside scan()
ValidateFail(c) ==
    /\ F(c).pc = "validate"
    /\ Throw(c, "validate")
    /\ UNCHANGED << currentLang, options, browser, procs >>
    /\ UNCHANGED resolveVars
    /\ UNCHANGED cliVars
    /\ UNCHANGED vdomVars

\* vDomBuilder.build resolves (the tree is not kept)
BuildOk(c) ==
    /\ F(c).pc = "build"
    /\ Goto(c, "injectAxe")
    /\ UNCHANGED << currentLang, options, browser, procs >>
    /\ UNCHANGED resolveVars
    /\ UNCHANGED cliVars
    /\ UNCHANGED vdomVars

\* vDomBuilder.build rejects: nothing catches it inside scan()
BuildFail(c) ==
    /\ F(c).pc = "build"
    /\ Throw(c, "build")
    /\ UNCHANGED << currentLang, options, browser, procs >>
    /\ UNCHANGED resolveVars
    /\ UNCHANGED cliVars
    /\ UNCHANGED vdomVars

InjectAxeOk(c) ==
    /\ F(c).pc = "injectAxe"
    /\ frame' = [frame EXCEPT ![c].console = log(c, "Axe injected. Running analysis..."),
                              ![c].pc = "runAxe"]
    /\ UNCHANGED << currentLang, options, browser, procs >>
    /\ UNCHANGED resolveVars
    /\ UNCHANGED cliVars
    /\ UNCHANGED vdomVars

InjectAxeFail(c) ==
    /\ F(c).pc = "injectAxe"
    /\ Throw(c, "injectAxe")
    /\ UNCHANGED << currentLang, options, browser, procs >>
    /\ UNCHANGED resolveVars
    /\ UNCHANGED cliVars
    /\ UNCHANGED vdomVars

\* page.evaluate(axe.run) resolves with the violations; enrichResults is
\* entered and waits for its first import
RunAxeOk(c) ==
    /\ F(c).pc = "runAxe"
    /\ \E violationList \in ScanViolationLists :
          frame' = [frame EXCEPT
                      ![c].axeResults = [ violations |-> violationList ],
                      ![c].console =
                          log(c, "Raw Axe Violations: " \o ToString(Len(violationList))),
                      ![c].pc = "importStandards"]
    /\ UNCHANGED << currentLang, options, browser, procs >>
    /\ UNCHANGED resolveVars
    /\ UNCHANGED cliVars
    /\ UNCHANGED vdomVars

RunAxeFail(c) ==
    /\ F(c).pc = "runAxe"
    /\ Throw(c, "axe.run")
    /\ UNCHANGED << currentLang, options, browser, procs >>
    /\ UNCHANGED resolveVars
    /\ UNCHANGED cliVars
    /\ UNCHANGED vdomVars

\* enrichResults: import('@holmdigital/standards') resolves
ImportStandardsOk(c) ==
    /\ F(c).pc = "importStandards"
    /\ Goto(c, "importI18n")
    /\ UNCHANGED << currentLang, options, browser, procs >>
    /\ UNCHANGED resolveVars
    /\ UNCHANGED cliVars
    /\ UNCHANGED vdomVars

ImportStandardsFail(c) ==
    /\ F(c).pc = "importStandards"
    /\ Throw(c, "import:@holmdigital/standards")
    /\ UNCHANGED << currentLang, options, browser, procs >>
    /\ UNCHANGED resolveVars
    /\ UNCHANGED cliVars
    /\ UNCHANGED vdomVars

\* (mutant) the rules are looked up without the language argument, that is
\* in the default 'en' tables
ImportI18nOkDefaultTables(c) ==
    /\ F(c).pc = "importI18n"
    /\ frame' = [frame EXCEPT
                   ![c].lang = getCurrentLang,
                   ![c].regulatoryReports =
                       enrichResults(F(c).axeResults.violations, "en"),
                   ![c].pc = "package"]
    /\ UNCHANGED << currentLang, options, browser, procs >>
    /\ UNCHANGED resolveVars
    /\ UNCHANGED cliVars
    /\ UNCHANGED vdomVars

\* enrichResults: import('../i18n') resolves; getCurrentLang() is read and
\* the loop over the violations runs to its end
ImportI18nOk(c) ==
    /\ F(c).pc = "importI18n"
    /\ frame' = [frame EXCEPT
                   ![c].lang = getCurrentLang,
                   ![c].regulatoryReports =
                       enrichResults(F(c).axeResults.violations, getCurrentLang),
                   ![c].pc = "package"]
    /\ UNCHANGED << currentLang, options, browser, procs >>
    /\ UNCHANGED resolveVars
    /\ UNCHANGED cliVars
    /\ UNCHANGED vdomVars

ImportI18nFail(c) ==
    /\ F(c).pc = "importI18n"
    /\ Throw(c, "import:../i18n")
    /\ UNCHANGED << currentLang, options, browser, procs >>
    /\ UNCHANGED resolveVars
    /\ UNCHANGED cliVars
    /\ UNCHANGED vdomVars

\* scan() resumes with the reports: the result package is built, the
\* validation result attached, and the result returned through finally
PackageResult(c) ==
    /\ F(c).pc = "package"
    /\ frame' = [frame EXCEPT
                   ![c].result =
                       Spread(generateResultPackage(F(c).regulatoryReports,
                                                    options[This(c)].url, Now),
                              [ htmlValidation |-> F(c).htmlValidation ]),
                   ![c].pc = "finally"]
    /\ UNCHANGED << currentLang, options, browser, procs >>
    /\ UNCHANGED resolveVars
    /\ UNCHANGED cliVars
    /\ UNCHANGED vdomVars

\* (mutant) a return in the finally block overrides the pending error
SettledSwallowsError(c) == "resolved"

\* what scan() settles to once the finally block is done
Settled(c) == IF F(c).error # "" THEN "rejected" ELSE "resolved"

\* (mutant) close() is called at the end of the try block instead of in a
\* finally block: a pending error skips it
FinallyOnlyOnSuccess(c) ==
    /\ F(c).pc = "finally"
    /\ IF browser[This(c)] # NoBrowser /\ F(c).error = ""
       THEN /\ procs' = [procs EXCEPT ![browser[This(c)]].closeCalls = @ + 1]
            /\ frame' = [frame EXCEPT ![c].closing = browser[This(c)],
                                      ![c].pc = "closing"]
       ELSE /\ procs' = procs
            /\ Goto(c, Settled(c))
    /\ UNCHANGED << currentLang, options, browser >>
    /\ UNCHANGED resolveVars
    /\ UNCHANGED cliVars
    /\ UNCHANGED vdomVars

\* finally { await this.close() }: close() tests this.browser and, when it
\* is set, asks the process to close
Finally(c) ==
    /\ F(c).pc = "finally"
    /\ IF browser[This(c)] # NoBrowser
       THEN /\ procs' = [procs EXCEPT ![browser[This(c)]].closeCalls = @ + 1]
            /\ frame' = [frame EXCEPT ![c].closing = browser[This(c)],
                                      ![c].pc = "closing"]
       ELSE /\ procs' = procs
            /\ Goto(c, Settled(c))
    /\ UNCHANGED << currentLang, options, browser >>
    /\ UNCHANGED resolveVars
    /\ UNCHANGED cliVars
    /\ UNCHANGED vdomVars

\* (mutant) close() does not reset the handle: this.browser = null is missing
CloseDoneKeepsHandle(c) ==
    /\ F(c).pc = "closing"
    /\ procs' = [procs EXCEPT ![F(c).closing].open = FALSE]
    /\ frame' = [frame EXCEPT ![c].closing = NoBrowser, ![c].pc = Settled(c)]
    /\ UNCHANGED << currentLang, options, browser >>
    /\ UNCHANGED resolveVars
    /\ UNCHANGED cliVars
    /\ UNCHANGED vdomVars

\* browser.close() resolves: the process is gone, this.browser = null, and
\* scan() settles.  (The steps that may throw are those of the try block;
\* browser.close() itself is taken to resolve.)
CloseDone(c) ==
    /\ F(c).pc = "closing"
    /\ procs' = [procs EXCEPT ![F(c).closing].open = FALSE]
    /\ browser' = [browser EXCEPT ![This(c)] = NoBrowser]
    /\ frame' = [frame EXCEPT ![c].closing = NoBrowser, ![c].pc = Settled(c)]
    /\ UNCHANGED << currentLang, options >>
    /\ UNCHANGED resolveVars
    /\ UNCHANGED cliVars
    /\ UNCHANGED vdomVars

\* the caller takes the outcome of scan(); the call's locals are gone
Return(c) ==
    /\ F(c).pc \in {"resolved", "rejected"}
    /\ frame' = [frame EXCEPT ![c] = [IdleFrame EXCEPT !.pc = "done"]]
    /\ UNCHANGED << currentLang, options, browser, procs >>
    /\ UNCHANGED resolveVars
    /\ UNCHANGED cliVars
    /\ UNCHANGED vdomVars

\* setLanguage(code) is called from outside the scan
SetLanguage(code) ==
    /\ currentLang' = setLanguage(code)
    /\ UNCHANGED << options, browser, procs, frame >>
    /\ UNCHANGED resolveVars
    /\ UNCHANGED cliVars
    /\ UNCHANGED vdomVars

ScannerIdle ==
    /\ currentLang = "en"
    /\ browser = [ s \in Scanners |-> NoBrowser ]
    /\ procs = << >>
    /\ frame = [ c \in Calls |-> IdleFrame ]

\* the hd-a11y-scan process has not been started
CliIdle == cli = [ pc |-> "off" ]

\* no virtual DOM is being built
VDomIdle == vdom = [ pc |-> "off" ]

ResolveIdle ==
    /\ axeResults = [ violations |-> << >> ]
    /\ langRead = "en"
    /\ regulatoryReports = << >>
    /\ resultPackage = Null
    /\ step = "off"
    /\ storedRules = << >>

Init ==
    /\ ScannerIdle
    /\ \E viewport \in Viewports :
          options = [ s \in Scanners |->
                        ScannerOptions(IF s = "s1" THEN viewport ELSE Null) ]
    /\ ResolveIdle
    /\ CliIdle
    /\ VDomIdle

\* the steps of a call between its start and the moment it has settled
ScanBody(c) ==
    \/ LaunchOk(c) \/ LaunchFail(c)
    \/ GetPage(c)
    \/ NewPageOk(c) \/ NewPageFail(c)
    \/ SetUserAgentOk(c) \/ SetUserAgentFail(c)
    \/ SetViewportOk(c) \/ SetViewportFail(c)
    \/ GotoOk(c) \/ GotoFail(c) \/ BackoffDone(c)
    \/ WaitForNetworkIdleOk(c) \/ WaitForNetworkIdleFail(c)
    \/ ContentOk(c) \/ ContentFail(c)
    \/ ValidateOk(c) \/ ValidateFail(c)
    \/ BuildOk(c) \/ BuildFail(c)
    \/ InjectAxeOk(c) \/ InjectAxeFail(c)
    \/ RunAxeOk(c) \/ RunAxeFail(c)
    \/ ImportStandardsOk(c) \/ ImportStandardsFail(c)
    \/ ImportI18nOk(c) \/ ImportI18nFail(c)
    \/ PackageResult(c)
    \/ Finally(c) \/ CloseDone(c)

ScanStep(c) ==
    \/ StartScan(c)
    \/ StartClose(c)
    \/ ScanBody(c)
    \/ Return(c)

Next ==
    \/ \E c \in Calls : ScanStep(c)
    \/ \E code \in LanguageRequests : SetLanguage(code)

Spec == Init /\ [][Next]_vars

(***************************************************************************)
(* The command line program hd-a11y-scan: one run of its action.            *)
(***************************************************************************)
\* the process is running: process.exit has not been called and the action
\* has not returned
Running == -1

\* new URL(urlString).protocol, "invalid" when the constructor throws
protocolOf(urlString) ==
    CASE urlString = "https://example.com" -> "https:"
      [] urlString = "http://example.com" -> "http:"
      [] urlString = "ftp://example.com" -> "ftp:"
      [] OTHER -> "invalid"

isValidUrl(urlString) == protocolOf(urlString) \in {"http:", "https:"}

\* options.viewport.split('x').map(Number), NaN and undefined as 0
splitNumbers(size) ==
    CASE size = "1024x768" -> << 1024, 768 >>
      [] size = "x600" -> << 0, 600 >>
      [] OTHER -> << 0, 0 >>

\* the viewport the action gives to the scanner
parseViewport(size) ==
    IF size = "undefined" THEN [ width |-> 1280, height |-> 720 ]
    ELSE IF size = "mobile" THEN [ width |-> 375, height |-> 667 ]
    ELSE IF size = "desktop" THEN [ width |-> 1920, height |-> 1080 ]
    ELSE IF size = "tablet" THEN [ width |-> 768, height |-> 1024 ]
    ELSE IF splitNumbers(size)[1] # 0 /\ splitNumbers(size)[2] # 0
    THEN [ width |-> splitNumbers(size)[1], height |-> splitNumbers(size)[2] ]
    ELSE [ width |-> 1280, height |-> 720 ]

\* the command lines: <url> --lang --ci --json --pdf --viewport
CommandLines ==
    [ url : {"https://example.com", "example.com"},
      lang : {"en", "sv"},
      ci : BOOLEAN,
      json : BOOLEAN,
      pdf : {"undefined", "report.pdf"},
      viewport : {"undefined", "mobile", "x600"} ]

\* new RegulatoryScanner({ url, failOnCritical, viewport, silent })
newRegulatoryScanner(argv) ==
    Spread([ headless |-> TRUE, standard |-> "dos-lagen", silent |-> FALSE ],
           [ url |-> argv.url,
             failOnCritical |-> argv.ci,
             viewport |-> parseViewport(argv.viewport),
             silent |-> argv.json ])

\* (mutant) the critical findings end the run with 1 in every mode
exitsOnCriticalInEveryMode(argv, result) == result.stats.critical > 0

\* options.ci && result.stats.critical > 0
exitsOnCritical(argv, result) == argv.ci /\ result.stats.critical > 0

\* process.exit(code): the process is gone, nothing more of the action runs
exit(code) == [cli EXCEPT !.pc = "exited", !.exitCode = code]

\* the action is run: setLanguage, the url check, the scanner is made and
\* scan() is called, which runs up to puppeteer.launch
CliStart(argv) ==
    /\ cli.pc = "off"
    /\ currentLang' = setLanguage(argv.lang)
    /\ IF ~isValidUrl(argv.url)
       THEN /\ cli' = [ pc |-> "exited", argv |-> argv, result |-> Null,
                        error |-> "Invalid URL format", exitCode |-> 1 ]
            /\ UNCHANGED << options, frame >>
       ELSE /\ cli' = [ pc |-> "scan", argv |-> argv, result |-> Null,
                        error |-> "", exitCode |-> Running ]
            /\ options' = [options EXCEPT !["s1"] = newRegulatoryScanner(argv)]
            /\ frame' = [frame EXCEPT ![1] = [IdleFrame EXCEPT !.pc = "launch",
                                                               !.scanner = "s1"]]
    /\ UNCHANGED << browser, procs >>
    /\ UNCHANGED resolveVars
    /\ UNCHANGED vdomVars

\* the rest of the try block once the result is there and the report, if
\* any, is written: the output, then the CI check; at the end of the try
\* block the finally block calls scanner.close()
CliOutput(result) ==
    IF exitsOnCritical(cli.argv, result)
    THEN /\ cli' = [exit(1) EXCEPT !.result = result]
         /\ frame' = [frame EXCEPT ![1] = [IdleFrame EXCEPT !.pc = "done"]]
    ELSE /\ cli' = [cli EXCEPT !.pc = "close", !.result = result]
         /\ frame' = [frame EXCEPT ![1] = [IdleFrame EXCEPT !.pc = "done"],
                                   ![2] = [IdleFrame EXCEPT !.pc = "finally",
                                                            !.op = "close",
                                                            !.scanner = "s1"]]

\* await scanner.scan() settles: a rejection goes to the catch block, which
\* ends the process with 1; a result goes on to the report or the output
CliScanSettled ==
    /\ cli.pc = "scan"
    /\ F(1).pc \in {"resolved", "rejected"}
    /\ IF F(1).pc = "rejected"
       THEN /\ cli' = [exit(1) EXCEPT !.error = F(1).error]
            /\ frame' = [frame EXCEPT ![1] = [IdleFrame EXCEPT !.pc = "done"]]
       ELSE IF cli.argv.pdf # "undefined"
       THEN /\ cli' = [cli EXCEPT !.pc = "pdf", !.result = F(1).result]
            /\ frame' = [frame EXCEPT ![1] = [IdleFrame EXCEPT !.pc = "done"]]
       ELSE CliOutput(F(1).result)
    /\ UNCHANGED << currentLang, options, browser, procs >>
    /\ UNCHANGED resolveVars
    /\ UNCHANGED vdomVars

\* await generatePDF(html, options.pdf) resolves
CliPdfOk ==
    /\ cli.pc = "pdf"
    /\ CliOutput(cli.result)
    /\ UNCHANGED << currentLang, options, browser, procs >>
    /\ UNCHANGED resolveVars
    /\ UNCHANGED vdomVars

\* generateReportHTML throws or generatePDF rejects: the catch block
CliPdfFail ==
    /\ cli.pc = "pdf"
    /\ cli' = [exit(1) EXCEPT !.error = "generatePDF"]
    /\ UNCHANGED << currentLang, options, browser, procs, frame >>
    /\ UNCHANGED resolveVars
    /\ UNCHANGED vdomVars

\* scanner.close() of the finally block has resolved: the action returns
\* and the process ends with nothing left to run
CliReturn ==
    /\ cli.pc = "close"
    /\ F(2).pc = "resolved"
    /\ cli' = exit(0)
    /\ frame' = [frame EXCEPT ![2] = [IdleFrame EXCEPT !.pc = "done"]]
    /\ UNCHANGED << currentLang, options, browser, procs >>
    /\ UNCHANGED resolveVars
    /\ UNCHANGED vdomVars

InitCli ==
    /\ ScannerIdle
    /\ options = [ s \in Scanners |-> ScannerOptions(Null) ]
    /\ ResolveIdle
    /\ CliIdle
    /\ VDomIdle

NextCli ==
    \/ \E argv \in CommandLines : CliStart(argv)
    \/ CliScanSettled
    \/ CliPdfOk
    \/ CliPdfFail
    \/ CliReturn
    \/ \E c \in {1, 2} : ScanBody(c)

SpecCli == InitCli /\ [][NextCli]_vars

(***************************************************************************)
(* Properties of scan() (checked under Spec).                               *)
(***************************************************************************)
HasSettled(c) == F(c).pc \in {"resolved", "rejected"}

\* C1: whenever scan() has launched a browser, whatever step then succeeds
\* or throws, by the time scan() resolves or rejects that browser has been
\* closed and the scanner holds no browser handle (browser = null).
C1_BrowserReleasedOnEveryPath ==
    \A c \in Calls :
        (HasSettled(c) /\ F(c).launched # NoBrowser) =>
            /\ F(c).launched \in DOMAIN procs
            /\ ~procs[F(c).launched].open
            /\ procs[F(c).launched].closeCalls = 1
            /\ browser[This(c)] = NoBrowser

\* a scan whose rule engine threw has rejected, its browser closed
C1_Witness ==
    \E c \in Calls :
        /\ F(c).pc = "rejected"
        /\ F(c).error = "axe.run"
        /\ F(c).launched # NoBrowser
        /\ ~procs[F(c).launched].open
        /\ browser[This(c)] = NoBrowser

\* C2: navigation makes at most 3 page.goto attempts and stops retrying at
\* the first attempt that succeeds; when all 3 attempts fail the scan fails
\* with the navigation error of the last attempt, without capturing
\* content, running the rule engine or producing a ScanResult.
C2_NavigationRetry ==
    \A c \in Calls :
        /\ F(c).gotos <= 3
        /\ F(c).gotos > 0 =>
              F(c).gotos = (3 - F(c).retries) + (IF F(c).navigated THEN 1 ELSE 0)
        /\ F(c).navigated => F(c).pc \notin {"goto", "backoff"}
        /\ (F(c).gotos = 3 /\ ~F(c).navigated) =>
              /\ F(c).pc \in {"finally", "closing", "rejected"}
              /\ F(c).error = GotoError(3)
              /\ ~F(c).pageContent
              /\ F(c).axeResults = Null
              /\ F(c).regulatoryReports = << >>
              /\ F(c).result = Null
        /\ (F(c).pageContent \/ F(c).axeResults # Null \/ F(c).result # Null) =>
              F(c).navigated

\* a scan has rejected after three failed page.goto attempts
C2_Witness ==
    \E c \in Calls :
        /\ F(c).pc = "rejected"
        /\ F(c).gotos = 3
        /\ ~F(c).navigated
        /\ F(c).error = GotoError(3)
        /\ F(c).result = Null

\* a scan has resolved after two failed attempts and a third that succeeded
C2_ThirdAttemptSucceeds ==
    \E c \in Calls :
        /\ F(c).pc = "resolved"
        /\ F(c).gotos = 3
        /\ F(c).navigated
        /\ F(c).result # Null

\* a scan whose structural validation found issues has resolved with a
\* result that carries them
C12_IssuesFoundAreSurfaced ==
    \E c \in Calls :
        /\ F(c).pc = "resolved"
        /\ ~F(c).result.htmlValidation.valid
        /\ Len(F(c).result.htmlValidation.errors) > 0

\* C12: a failure of structural validation or of DOM flattening does not
\* abort the scan: the rule engine still runs and a result is returned, so
\* no scan() is left with, or rejects with, the error of htmlValidator
\* .validate or of vDomBuilder.build.
C12_ValidationAndFlatteningNonFatal ==
    \A c \in Calls :
        /\ F(c).error \notin {"validate", "build"}
        /\ (F(c).pc = "rejected" /\ F(c).pageContent) =>
              F(c).error \notin {"validate", "build"}

\* the errors of the rule engine: axe-core cannot be injected, or axe.run
\* throws inside the page
RuleEngineErrors == {"injectAxe", "axe.run"}

\* C13: a failure of the rule engine (injection or evaluation throws) is
\* fatal: scan() rejects with it, no axe result, no report and no ScanResult
\* exists, and when scan() has rejected the browser it launched is closed
\* and the handle is null.
C13_RuleEngineFailureIsFatal ==
    \A c \in Calls :
        F(c).error \in RuleEngineErrors =>
            /\ F(c).pc \in {"finally", "closing", "rejected"}
            /\ F(c).navigated
            /\ F(c).pageContent
            /\ F(c).axeResults = Null
            /\ F(c).regulatoryReports = << >>
            /\ F(c).result = Null
            /\ F(c).pc = "rejected" =>
                  /\ F(c).launched # NoBrowser
                  /\ ~procs[F(c).launched].open
                  /\ browser[This(c)] = NoBrowser

\* a scan has rejected because axe-core could not be injected; its browser
\* is closed
C13_Witness ==
    \E c \in Calls :
        /\ F(c).pc = "rejected"
        /\ F(c).error = "injectAxe"
        /\ F(c).result = Null
        /\ ~procs[F(c).launched].open

\* C14: closing is idempotent: across any sequence of scan() and close()
\* calls made one after another, close() on a scanner whose browser is
\* already closed or was never launched does nothing (it does not wait for,
\* or call, browser.close), and browser.close is called at most once per
\* launched browser.
C14_CloseIsIdempotent ==
    /\ \A p \in DOMAIN procs : procs[p].closeCalls <= 1
    /\ \A p \in DOMAIN procs : ~procs[p].open => procs[p].closeCalls = 1
    /\ \A c \in Calls :
          F(c).op = "close" =>
              /\ F(c).pc \in {"idle", "finally", "resolved", "done"}
              /\ F(c).closing = NoBrowser
              /\ browser[This(c)] = NoBrowser

\* close() has been called, and has resolved, after a scan() that launched
\* a browser and closed it in its own finally block
C14_Witness ==
    \E c \in Calls :
        /\ F(c).op = "close"
        /\ F(c).pc = "resolved"
        /\ Len(procs) = 1
        /\ ~procs[1].open
        /\ procs[1].closeCalls = 1

\* close() has been called twice on a scanner that never launched a browser
C14_NeverLaunched ==
    /\ procs = << >>
    /\ \E c, d \in Calls :
          /\ c < d
          /\ frame[c].pc = "done"
          /\ F(d).op = "close"
          /\ F(d).pc = "resolved"

\* the session of scanner s is closed: it launched a browser, every browser
\* it launched is closed, and its handle is null
Closed(s) ==
    /\ browser[s] = NoBrowser
    /\ \E p \in DOMAIN procs : procs[p].owner = s
    /\ \A p \in DOMAIN procs : procs[p].owner = s => ~procs[p].open

\* the page.goto calls in progress or made by the calls running on s
Navigations(s) ==
    { c \in Calls : frame[c].scanner = s /\ frame[c].op = "scan" /\ frame[c].gotos > 0 }

\* C15: the session state Closed is terminal: once the session of a scanner
\* instance has been closed, no later operation on the instance leaves
\* Closed: no further browser is launched on it.
C15_ClosedIsTerminal ==
    [][\A s \in Scanners : Closed(s) => Closed(s)']_vars

\* a second scan() on a closed instance has launched a second browser and
\* navigated with it
C15_ScannerReused ==
    /\ Len(procs) = 2
    /\ procs[1].owner = "s1" /\ ~procs[1].open
    /\ procs[2].owner = "s1" /\ procs[2].open
    /\ browser["s1"] = 2
    /\ Navigations("s1") # {}

(***************************************************************************)
(* Properties of the command line program (checked under SpecCli).          *)
(***************************************************************************)
Exited == cli.pc = "exited"

\* the run has a result with at least one critical finding
HasCritical == cli.result # Null /\ cli.result.stats.critical > 0

C19_CiWithoutCritical ==
    /\ Exited
    /\ cli.argv.ci
    /\ cli.result # Null
    /\ cli.result.stats.critical = 0
    /\ cli.result.stats.high > 0
    /\ cli.exitCode = 0

\* a run with --ci whose result has a critical finding has ended with 1
C19_CiWithCritical ==
    /\ Exited
    /\ cli.argv.ci
    /\ HasCritical
    /\ cli.error = ""
    /\ cli.exitCode = 1

\* a run whose scan rejected after three failed navigations has ended with 1
C19_ScanThrew ==
    /\ Exited
    /\ cli.error = GotoError(3)
    /\ cli.exitCode = 1

(***************************************************************************)
(* Two scanners, each running one scan(), the two scans overlapping.        *)
(***************************************************************************)
TwoCalls == {1, 2}

InitTwo ==
    /\ ScannerIdle
    /\ options = [ s \in Scanners |->
                     IF s = "s1" THEN ScannerOptions([ width |-> 375, height |-> 667 ])
                     ELSE [ScannerOptions(Null) EXCEPT !.url = "https://example.org"] ]
    /\ ResolveIdle
    /\ CliIdle
    /\ VDomIdle

\* scan() is called on the call's own instance (the first call on s1, the
\* second on s2), whatever the other does
StartScanConcurrent(c) ==
    /\ F(c).pc = "idle"
    /\ frame' = [frame EXCEPT ![c] = [IdleFrame EXCEPT !.pc = "launch",
                                                       !.scanner =
                                                           IF c = 1 THEN "s1" ELSE "s2"]]
    /\ UNCHANGED << currentLang, options, browser, procs >>
    /\ UNCHANGED resolveVars
    /\ UNCHANGED cliVars
    /\ UNCHANGED vdomVars

\* the steps of a scan() whose page operations resolve at the first attempt,
\* up to the rule engine, which returns or throws
ScanBodyPlain(c) ==
    \/ LaunchOk(c) \/ LaunchFail(c)
    \/ GetPage(c)
    \/ NewPageOk(c)
    \/ SetUserAgentOk(c)
    \/ GotoOk(c)
    \/ WaitForNetworkIdleOk(c)
    \/ ContentOk(c)
    \/ ValidateOk(c)
    \/ BuildOk(c)
    \/ InjectAxeOk(c)
    \/ RunAxeOk(c) \/ RunAxeFail(c)
    \/ ImportStandardsOk(c)
    \/ ImportI18nOk(c)
    \/ PackageResult(c)
    \/ Finally(c) \/ CloseDone(c)

\* the first scan takes every path of scan(); the second, overlapping it at
\* every point, takes the paths of ScanBodyPlain; a caller switches the
\* language to Swedish while the two scans run
NextTwo ==
    \/ \E c \in TwoCalls : StartScanConcurrent(c)
    \/ ScanBody(1)
    \/ ScanBodyPlain(2)
    \/ \E c \in TwoCalls : Return(c)
    \/ SetLanguage("sv")

SpecTwo == InitTwo /\ [][NextTwo]_vars

\* the positions of scan() at which the browser it launched is in use
UsingBrowser ==
    { "getPage", "newPage", "setUserAgent", "setViewport", "goto", "backoff",
      "waitForNetworkIdle", "content", "validate", "build", "injectAxe",
      "runAxe", "importStandards", "importI18n", "package" }

\* the result the call's scan produces from what its own page gave it, the
\* options of its own instance and the language read at its resolution
ResultAlone(c) ==
    Spread(generateResultPackage(enrichResults(F(c).axeResults.violations, F(c).lang),
                                 options[This(c)].url, Now),
           [ htmlValidation |-> F(c).htmlValidation ])

\* each scan uses, and closes, only the browser its own instance launched
OwnBrowserOnly ==
    \A c \in TwoCalls :
        /\ F(c).launched # NoBrowser => procs[F(c).launched].owner = This(c)
        /\ F(c).closing # NoBrowser => F(c).closing = F(c).launched
        /\ F(c).pc \in UsingBrowser =>
              /\ F(c).launched # NoBrowser
              /\ browser[This(c)] = F(c).launched
              /\ procs[F(c).launched].open
              /\ procs[F(c).launched].closeCalls = 0
        /\ (HasSettled(c) /\ F(c).launched # NoBrowser) =>
              /\ ~procs[F(c).launched].open
              /\ procs[F(c).launched].closeCalls = 1
              /\ browser[This(c)] = NoBrowser
        /\ F(c).pc = "resolved" => F(c).result = ResultAlone(c)

\* a step of a scan writes the locals of its call, the handle of its own
\* instance and the processes of its own instance, and nothing else: not
\* the other instance's handle or processes, not the options, not the
\* language
WritesOwnStateOnly ==
    \A c \in TwoCalls :
        frame'[c] # frame[c] =>
            /\ currentLang' = currentLang
            /\ options' = options
            /\ \A d \in TwoCalls : d # c => frame'[d] = frame[d]
            /\ \A s \in Scanners : s # frame'[c].scanner => browser'[s] = browser[s]
            /\ \A p \in DOMAIN procs :
                  procs[p].owner # frame'[c].scanner => procs'[p] = procs[p]
            /\ \A p \in DOMAIN procs' :
                  p \notin DOMAIN procs => procs'[p].owner = frame'[c].scanner

\* C18: two scans running concurrently on two independent scanner instances
\* do not interfere: each instance launches and closes only its own
\* browser, neither scan writes state the other reads, and each scan's
\* result is the one it produces when run alone.
C18_IndependentInstances == []OwnBrowserOnly /\ [][WritesOwnStateOnly]_vars

\* both scans have resolved, each browser launched while the other's was
\* open, with results for their own urls; the language was switched
\* between the two resolutions
C18_Witness ==
    /\ F(1).pc = "resolved" /\ F(2).pc = "resolved"
    /\ F(1).launched = 2 /\ F(2).launched = 1
    /\ F(1).result.url = ScanUrl
    /\ F(2).result.url = "https://example.org"
    /\ F(1).lang = "en" /\ F(2).lang = "sv"
    /\ Len(F(1).result.reports) = 1
    /\ Len(F(2).result.reports) = 0

\* the place of each position of scan() in the sequence acquire, navigate,
\* capture, validate, flatten, run the rule engine, resolve, package,
\* release, settle
StepRank(pc) ==
    CASE pc = "idle" -> 0
      [] pc \in {"launch", "getPage", "newPage", "setUserAgent", "setViewport"} -> 1
      [] pc \in {"goto", "backoff", "waitForNetworkIdle"} -> 2
      [] pc = "content" -> 3
      [] pc = "validate" -> 4
      [] pc = "build" -> 5
      [] pc \in {"injectAxe", "runAxe"} -> 6
      [] pc \in {"importStandards", "importI18n"} -> 7
      [] pc = "package" -> 8
      [] pc \in {"finally", "closing"} -> 9
      [] pc \in {"resolved", "rejected"} -> 10
      [] OTHER -> 11

\* what has happened when a scan() is at, or past, a step
StepsInOrder ==
    \A c \in Calls :
        F(c).op = "scan" =>
            /\ StepRank(F(c).pc) \in 2..8 =>
                  /\ F(c).launched # NoBrowser /\ F(c).page
                  /\ procs[F(c).launched].open
            /\ StepRank(F(c).pc) \in 3..8 => F(c).navigated
            /\ StepRank(F(c).pc) \in 4..8 => F(c).pageContent
            /\ StepRank(F(c).pc) \in 5..8 => F(c).htmlValidation # Null
            /\ F(c).pageContent => F(c).navigated
            /\ F(c).axeResults # Null =>
                  /\ F(c).navigated /\ F(c).pageContent
                  /\ F(c).htmlValidation # Null
                  /\ StepRank(F(c).pc) >= 7
            /\ StepRank(F(c).pc) \in 7..8 => F(c).axeResults # Null
            /\ (F(c).lang # "" \/ F(c).regulatoryReports # << >>) =>
                  /\ F(c).axeResults # Null
                  /\ StepRank(F(c).pc) >= 8
            /\ F(c).result # Null =>
                  /\ F(c).lang # ""
                  /\ F(c).result.reports = F(c).regulatoryReports
                  /\ StepRank(F(c).pc) >= 9
            /\ F(c).pc = "resolved" => F(c).result # Null
            /\ HasSettled(c) =>
                  /\ browser[This(c)] = NoBrowser
                  /\ F(c).launched # NoBrowser => ~procs[F(c).launched].open

\* a step of a scan() never goes back in the sequence, leaves the rule
\* engine's results, the reports and the result as they are once there, and
\* settles only from the release
StepsForward ==
    \A c \in Calls :
        /\ StepRank(frame'[c].pc) >= StepRank(frame[c].pc)
        /\ (StepRank(frame[c].pc) < 10 /\ StepRank(frame'[c].pc) = 10) =>
              StepRank(frame[c].pc) = 9
        /\ (StepRank(frame[c].pc) = 9 /\ StepRank(frame'[c].pc) \in 9..10) =>
              /\ frame'[c].result = frame[c].result
              /\ frame'[c].error = frame[c].error
        /\ (frame[c].axeResults # Null /\ StepRank(frame'[c].pc) <= 10) =>
              frame'[c].axeResults = frame[c].axeResults

\* C20: within one scan() the steps happen in the order acquire, navigate,
\* capture, validate and flatten, run the rule engine, resolve, compute and
\* assemble the result, release: the rule engine never runs unless
\* navigation succeeded and the markup was captured, resolution never
\* starts before the rule engine returned, and release is the last step
\* before scan() settles.
C20_StepOrder == []StepsInOrder /\ [][StepsForward]_vars

\* a scan() has gone through every step and resolved: navigation at the
\* second attempt, markup with structural issues, one violation resolved
\* in Swedish, the browser closed
C20_Witness ==
    \E c \in Calls :
        /\ F(c).pc = "resolved"
        /\ F(c).gotos = 2
        /\ ~F(c).htmlValidation.valid
        /\ Len(F(c).axeResults.violations) = 1
        /\ F(c).lang = "sv"
        /\ Len(F(c).result.reports) = 1
        /\ F(c).result.htmlValidation = F(c).htmlValidation
        /\ ~procs[F(c).launched].open

\* C21: after a successful navigation a failure of the network-quiescence
\* wait is not fatal: whichever way the wait ends, the call goes on to
\* content capture with no error pending and with the same locals as after
\* a wait that succeeded, the only difference being the logged line; once
\* a page.goto has succeeded no further page.goto is made by that call.
C21_NetworkIdleFailureNonFatal ==
    [][\A c \in Calls :
          /\ (F(c).pc = "waitForNetworkIdle" /\ frame'[c] # frame[c]) =>
                /\ frame'[c].pc = "content"
                /\ frame'[c].error = ""
                /\ frame'[c].console \in
                      { F(c).console, Append(F(c).console,
                               "Network busy, proceeding with scan anyway...") }
                /\ [frame'[c] EXCEPT !.console = F(c).console]
                      = [F(c) EXCEPT !.pc = "content"]
          /\ (F(c).navigated /\ frame'[c].pc # "done") =>
                frame'[c].gotos = F(c).gotos
      ]_vars

\* a scan whose network-quiescence wait failed has resolved with a result
C21_Witness ==
    \E c \in Calls :
        /\ F(c).pc = "resolved"
        /\ includes(F(c).console, "Network busy, proceeding with scan anyway...")
        /\ F(c).navigated
        /\ F(c).pageContent
        /\ F(c).axeResults # Null
        /\ F(c).result # Null
        /\ F(c).error = ""

\* C22: the 2s backoff is taken only between navigation attempts: when an
\* attempt is about to be made every earlier (failed) attempt has been
\* followed by one wait; after the last attempt of a call, successful or
\* not, the waits are one fewer than the attempts, so no wait follows the
\* final failed attempt and a call whose 3 attempts all failed has waited
\* exactly twice.
C22_BackoffBetweenAttempts ==
    \A c \in Calls :
        /\ F(c).pc = "goto" => F(c).backoffs = F(c).gotos
        /\ F(c).pc = "backoff" =>
              /\ F(c).retries > 0
              /\ F(c).backoffs = F(c).gotos - 1
        /\ (F(c).pc \notin {"goto", "backoff"} /\ F(c).gotos > 0) =>
              F(c).backoffs = F(c).gotos - 1
        /\ F(c).gotos = 0 => F(c).backoffs = 0
        /\ (F(c).gotos = 3 /\ ~F(c).navigated) => F(c).backoffs = 2

\* a scan has rejected after three failed attempts and two backoff waits
C22_Witness ==
    \E c \in Calls :
        /\ F(c).pc = "rejected"
        /\ F(c).error = GotoError(3)
        /\ F(c).gotos = 3
        /\ F(c).backoffs = 2

\* C23: after any sequence of setLanguage calls getCurrentLang() is one of
\* the supported locales en, sv, de, fr, es: 'en' at the start, the
\* requested code when it is supported and 'en' when it is not.
C23_CurrentLangSupported == getCurrentLang \in Locales

\* setLanguage has selected a supported language other than the default
C23_SupportedSelected == getCurrentLang \in Locales \ {"en"}

\* the reports of a call are those of its violations in the one locale the
\* call has read, and they are the reports of its result
ReportsInOneLocale ==
    \A c \in Calls :
        F(c).lang # "" =>
            /\ F(c).regulatoryReports =
                  enrichResults(F(c).axeResults.violations, F(c).lang)
            /\ F(c).result # Null =>
                  F(c).result.reports = F(c).regulatoryReports

\* a call reads the language once, after its rule engine has returned and
\* the import of the i18n module has resolved, and takes the language that
\* is current at that step; afterwards no step, of the call or of a
\* setLanguage caller, changes the locale or the reports of the call
LocaleFixedAtRead ==
    \A c \in Calls :
        /\ (F(c).lang = "" /\ frame'[c].lang # "") =>
              /\ F(c).pc = "importI18n"
              /\ F(c).axeResults # Null
              /\ frame'[c].lang = currentLang
        /\ (F(c).lang # "" /\ frame'[c].pc # "done") =>
              /\ frame'[c].lang = F(c).lang
              /\ frame'[c].regulatoryReports = F(c).regulatoryReports

InitSame ==
    /\ ScannerIdle
    /\ options = [ s \in Scanners |-> ScannerOptions(Null) ]
    /\ ResolveIdle
    /\ CliIdle
    /\ VDomIdle

\* scan() is called on the one instance, whatever the other call is doing
StartScanSame(c) ==
    /\ F(c).pc = "idle"
    /\ frame' = [frame EXCEPT ![c] = [IdleFrame EXCEPT !.pc = "launch",
                                                       !.scanner = "s1"]]
    /\ UNCHANGED << currentLang, options, browser, procs >>
    /\ UNCHANGED resolveVars
    /\ UNCHANGED cliVars
    /\ UNCHANGED vdomVars

\* the process the call's page lives in has exited: browser.close() has
\* resolved for it
PageGone(c) == F(c).pageIn # NoBrowser /\ ~procs[F(c).pageIn].open

\* browser.close() has been called on the process of the call's page and
\* has not resolved yet
PageGoing(c) ==
    /\ F(c).pageIn # NoBrowser
    /\ procs[F(c).pageIn].open
    /\ procs[F(c).pageIn].closeCalls > 0

\* the steps of a scan() whose page is gone: every operation on the page
\* rejects, the steps that do not touch the page go on
ScanBodyPageGone(c) ==
    \/ NewPageFail(c)
    \/ SetUserAgentFail(c)
    \/ GotoFail(c) \/ BackoffDone(c)
    \/ WaitForNetworkIdleFail(c)
    \/ ContentFail(c)
    \/ ValidateOk(c)
    \/ BuildFail(c)
    \/ InjectAxeFail(c)
    \/ RunAxeFail(c)
    \/ ImportStandardsOk(c)
    \/ ImportI18nOk(c)
    \/ PackageResult(c)
    \/ Finally(c) \/ CloseDone(c)

\* each call takes the paths of ScanBodyPlain while the process of its page
\* runs, those of ScanBodyPageGone once it has exited, and either while it
\* is being closed
NextSame ==
    \/ \E c \in TwoCalls : StartScanSame(c)
    \/ \E c \in TwoCalls : ~PageGone(c) /\ ScanBodyPlain(c)
    \/ \E c \in TwoCalls : (PageGone(c) \/ PageGoing(c)) /\ ScanBodyPageGone(c)
    \/ \E c \in TwoCalls : Return(c)

SpecSame == InitSame /\ [][NextSame]_vars

\* C24: if two scan() calls overlap on the same scanner instance, every
\* browser launched by either call has been closed by the time both calls
\* have settled, and no call closes a browser that the other call is still
\* using.
C24_OverlappingScansReleaseBrowsers ==
    /\ (\A c \in TwoCalls : F(c).pc \in {"resolved", "rejected", "done"}) =>
          \A p \in DOMAIN procs : ~procs[p].open
    /\ \A c \in TwoCalls :
          (F(c).pc \in UsingBrowser /\ F(c).pageIn # NoBrowser) =>
              /\ procs[F(c).pageIn].open
              /\ procs[F(c).pageIn].closeCalls = 0

\* both calls have settled and a browser launched by one of them is open
C24_BrowserLeftOpen ==
    /\ \A c \in TwoCalls : HasSettled(c)
    /\ \E p \in DOMAIN procs : procs[p].open

\* a call is at a page operation while the browser of its page has been
\* closed by the other call
C24_ClosedUnderTheOther ==
    \E c \in TwoCalls :
        /\ F(c).pc \in UsingBrowser
        /\ F(c).pageIn # NoBrowser
        /\ ~procs[F(c).pageIn].open

\* the two calls did not overlap and both browsers are closed
C24_OneAfterTheOther ==
    /\ \A c \in TwoCalls : F(c).pc = "resolved"
    /\ Len(procs) = 2
    /\ \A p \in DOMAIN procs : ~procs[p].open

(***************************************************************************)
(* Resolution and scoring alone: enrichResults and generateResultPackage    *)
(* applied to violation lists and locales drawn from bounded sets.          *)
(***************************************************************************)
ResolveInputs ==
    (SeqsUpTo(ViolationUniverse, MaxViolations) \X Locales)
        \cup (SeqsUpTo(ViolationPool, MaxPoolViolations) \X {"en"})

InitResolve ==
    /\ ScannerIdle
    /\ options = [ s \in Scanners |-> ScannerOptions(Null) ]
    /\ \E input \in ResolveInputs :
          /\ axeResults = [ violations |-> input[1] ]
          /\ langRead = input[2]
    /\ regulatoryReports = << >>
    /\ resultPackage = Null
    /\ step = "violations"
    /\ storedRules = << >>
    /\ CliIdle
    /\ VDomIdle

Enrich ==
    /\ step = "violations"
    /\ regulatoryReports' = enrichResults(axeResults.violations, langRead)
    /\ step' = "reports"
    /\ UNCHANGED << axeResults, langRead, resultPackage, storedRules >>
    /\ UNCHANGED scannerVars
    /\ UNCHANGED cliVars
    /\ UNCHANGED vdomVars

Package ==
    /\ step = "reports"
    /\ resultPackage' = generateResultPackage(regulatoryReports, options["s1"].url, Now)
    /\ step' = "result"
    /\ UNCHANGED << axeResults, langRead, regulatoryReports, storedRules >>
    /\ UNCHANGED scannerVars
    /\ UNCHANGED cliVars
    /\ UNCHANGED vdomVars

NextResolve == Enrich \/ Package

SpecResolve == InitResolve /\ [][NextResolve]_vars

(***************************************************************************)
(* Properties of resolution (checked under SpecResolve).                    *)
(***************************************************************************)
Resolved == step \in {"reports", "result"}

ViolationAt(i) == axeResults.violations[i]
ReportAt(i) == regulatoryReports[i]

\* positions, in the table of the locale read, of the rules with the
\* violation's id, and of the rules sharing at least one tag with it
IdHits(v) ==
    { k \in 1..Len(getData(langRead)) : getData(langRead)[k].ruleId = v.id }
TagHits(v) ==
    { k \in 1..Len(getData(langRead)) :
        \E a \in 1..Len(v.tags), b \in 1..Len(getData(langRead)[k].tags) :
            v.tags[a] = getData(langRead)[k].tags[b] }
FirstOf(S) == CHOOSE k \in S : \A j \in S : k <= j

IsExact(v) == IdHits(v) # {}
IsTagResolved(v) == IdHits(v) = {} /\ TagHits(v) # {}
IsUnmatched(v) == IdHits(v) = {} /\ TagHits(v) = {}

\* the report carries the canonical fields of the rule
BuiltFromRule(r, rule) ==
    /\ r.ruleId = rule.ruleId
    /\ r.wcagCriteria = rule.wcagCriteria
    /\ r.en301549Criteria = rule.en301549Criteria
    /\ r.dosLagenReference = rule.dosLagenReference
    /\ r.diggRisk = rule.holmdigitalInsight.diggRisk
    /\ r.eaaImpact = rule.holmdigitalInsight.eaaImpact
    /\ r.remediation = rule.remediation
    /\ r.testability = rule.testability
    /\ \A k \in DOMAIN rule.holmdigitalInsight :
          /\ k \in DOMAIN r.holmdigitalInsight
          /\ r.holmdigitalInsight[k] = rule.holmdigitalInsight[k]

\* the report is the generic one made for a violation without a rule
IsSynthetic(r) == r.wcagCriteria = "Unknown" /\ r.en301549Criteria = "Unknown"

\* the report can be traced to the violation by the data it took from it
TracesTo(r, v) ==
    IF "failingNodes" \in DOMAIN r
    THEN /\ r.holmdigitalInsight.reasoning = v.help
         /\ Len(r.failingNodes) = Len(v.nodes)
         /\ \A k \in 1..Len(v.nodes) : r.failingNodes[k].html = v.nodes[k].html
    ELSE /\ r.ruleId = v.id
         /\ r.remediation.description = v.help
         /\ r.remediation.technicalGuidance = v.description

\* C3: enrichResults returns exactly one report per input violation, in
\* input order: the report list is as long as the violation list and report
\* i is derived from violation i, whichever path the violation takes; no
\* violation is dropped or duplicated.
C3_OneReportPerViolation ==
    Resolved =>
        /\ Len(regulatoryReports) = Len(axeResults.violations)
        /\ \A i \in 1..Len(axeResults.violations) :
              /\ i \in DOMAIN regulatoryReports
              /\ TracesTo(ReportAt(i), ViolationAt(i))

\* three violations, one per path, have been resolved to three reports
C3_Witness ==
    /\ Resolved
    /\ Len(axeResults.violations) = 3
    /\ Len(regulatoryReports) = 3
    /\ IsExact(ViolationAt(1))
    /\ IsTagResolved(ViolationAt(2))
    /\ IsUnmatched(ViolationAt(3))

\* C4: strict priority per violation: a rule with the violation's id is used
\* even when other rules share tags with it; only without an id match the
\* first rule, in the table's order, sharing a tag is used; only without
\* either the synthetic report is produced.
C4_ResolutionPriority ==
    Resolved =>
        \A i \in 1..Len(axeResults.violations) :
            LET v == ViolationAt(i)
                r == ReportAt(i)
                data == getData(langRead)
            IN  /\ IsExact(v) =>
                      /\ BuiltFromRule(r, data[FirstOf(IdHits(v))])
                      /\ r.ruleId = v.id
                      /\ ~IsSynthetic(r)
                /\ IsTagResolved(v) =>
                      /\ BuiltFromRule(r, data[FirstOf(TagHits(v))])
                      /\ ~IsSynthetic(r)
                /\ IsUnmatched(v) =>
                      /\ IsSynthetic(r)
                      /\ r.ruleId = v.id

\* a list holding a violation whose id matches a rule while an earlier rule
\* of the table shares a tag with it, and a violation without an id match
\* that shares tags with two rules
C4_Witness ==
    /\ Resolved
    /\ \E i \in 1..Len(axeResults.violations) :
          /\ IsExact(ViolationAt(i))
          /\ TagHits(ViolationAt(i)) # {}
          /\ FirstOf(TagHits(ViolationAt(i))) < FirstOf(IdHits(ViolationAt(i)))
    /\ \E i \in 1..Len(axeResults.violations) :
          /\ IsTagResolved(ViolationAt(i))
          /\ Cardinality(TagHits(ViolationAt(i))) >= 2
          /\ ReportAt(i).ruleId =
                 getData(langRead)[FirstOf(TagHits(ViolationAt(i)))].ruleId

\* C5: for a violation whose id matches a rule of the locale, the report's
\* regulatory fields equal the rule's fields; the report differs from the
\* canonical report only by the added reasoning and failing nodes.
C5_ExactMatchFidelity ==
    Resolved =>
        \A i \in 1..Len(axeResults.violations) :
            IsExact(ViolationAt(i)) =>
                LET r == ReportAt(i)
                    rule == getData(langRead)[FirstOf(IdHits(ViolationAt(i)))]
                IN  /\ BuiltFromRule(r, rule)
                    /\ r.ruleId = ViolationAt(i).id
                    /\ DOMAIN r =
                          { "ruleId", "wcagCriteria", "en301549Criteria",
                            "dosLagenReference", "diggRisk", "eaaImpact",
                            "remediation", "holmdigitalInsight", "testability",
                            "failingNodes" }
                    /\ DOMAIN r.holmdigitalInsight =
                          (DOMAIN rule.holmdigitalInsight) \cup {"reasoning"}

\* an exact match has been resolved, in a locale other than the default
C5_Witness ==
    /\ Resolved
    /\ langRead = "sv"
    /\ \E i \in 1..Len(axeResults.violations) :
          /\ IsExact(ViolationAt(i))
          /\ ReportAt(i).dosLagenReference = "sv:dos:" \o ViolationAt(i).id

\* C6: a violation matching no rule by id and none by tag yields a report
\* with ruleId = the violation id, risk and impact medium, wcag and EN 301
\* 549 references "Unknown", remediation description = the help text,
\* technical guidance = the description, marked (in its legal reference)
\* as requiring manual assessment.
C6_SyntheticFallback ==
    Resolved =>
        \A i \in 1..Len(axeResults.violations) :
            IsUnmatched(ViolationAt(i)) =>
                LET r == ReportAt(i)
                    v == ViolationAt(i)
                IN  /\ r.ruleId = v.id
                    /\ r.diggRisk = "medium"
                    /\ r.eaaImpact = "medium"
                    /\ r.holmdigitalInsight.diggRisk = "medium"
                    /\ r.holmdigitalInsight.eaaImpact = "medium"
                    /\ r.wcagCriteria = "Unknown"
                    /\ r.en301549Criteria = "Unknown"
                    /\ r.remediation.description = v.help
                    /\ r.remediation.technicalGuidance = v.description
                    /\ r.dosLagenReference = "Kräver manuell bedömning"

\* an unmatched violation has been resolved in a locale whose table is not
\* empty
C6_Witness ==
    /\ Resolved
    /\ Len(getData(langRead)) > 0
    /\ \E i \in 1..Len(axeResults.violations) :
          /\ IsUnmatched(ViolationAt(i))
          /\ ReportAt(i).ruleId = ViolationAt(i).id

\* a violation resolved by a rule, by id or by tag, carries the overlay
C7_MatchedPathsCarryOverlay ==
    /\ Resolved
    /\ \E i \in 1..Len(axeResults.violations) :
          /\ ~IsUnmatched(ViolationAt(i))
          /\ ReportAt(i).holmdigitalInsight.reasoning = ViolationAt(i).help
          /\ Len(ReportAt(i).failingNodes) = 2
          /\ ReportAt(i).failingNodes[1].target = "#gallery img:nth-child(1)"

\* C7: on every path the report's insight carries reasoning = the
\* violation's help text and the report carries one failing-node entry
\* (markup snippet, locator, failure summary) per raw node, in order.
C7_OverlayOnEveryPath ==
    Resolved =>
        \A i \in 1..Len(axeResults.violations) :
            LET r == ReportAt(i)
                v == ViolationAt(i)
            IN  /\ "reasoning" \in DOMAIN r.holmdigitalInsight
                /\ r.holmdigitalInsight.reasoning = v.help
                /\ "failingNodes" \in DOMAIN r
                /\ Len(r.failingNodes) = Len(v.nodes)
                /\ \A k \in 1..Len(v.nodes) :
                      /\ r.failingNodes[k].html = v.nodes[k].html
                      /\ r.failingNodes[k].target = join(v.nodes[k].target, " ")
                      /\ r.failingNodes[k].failureSummary = v.nodes[k].failureSummary

(***************************************************************************)
(* Properties of the result package (checked under SpecResolve).            *)
(***************************************************************************)
Packaged == step = "result"

\* the number of reports of the result whose insight has the risk tier
TierCount(risk) ==
    Cardinality({ i \in 1..Len(resultPackage.reports) :
                    resultPackage.reports[i].holmdigitalInsight.diggRisk = risk })

Penalty ==
    TierCount("critical") * 25 + TierCount("high") * 15
        + TierCount("medium") * 5 + TierCount("low")

\* C8: in every ScanResult stats.total equals the number of reports of the
\* result's report list, also for the empty list and for lists in which
\* several reports share a ruleId.
C8_TotalIsReportCount ==
    Packaged =>
        /\ resultPackage.stats.total = Len(resultPackage.reports)
        /\ resultPackage.reports = regulatoryReports

\* a result whose list holds two reports with the same ruleId
C8_Witness ==
    /\ Packaged
    /\ resultPackage.stats.total = 2
    /\ Len(resultPackage.reports) = 2
    /\ resultPackage.reports[1].ruleId = resultPackage.reports[2].ruleId

\* C9: complianceStatus is PASS if and only if stats.total = 0: a non-empty
\* report list yields FAIL whatever the tiers of its reports (a single
\* low-risk report with score 99 is FAIL), the empty list yields PASS.
C9_PassIffNoReports ==
    Packaged =>
        /\ resultPackage.complianceStatus \in {"PASS", "FAIL"}
        /\ resultPackage.complianceStatus = "PASS" <=> resultPackage.stats.total = 0
        /\ Len(resultPackage.reports) = 0 => resultPackage.complianceStatus = "PASS"
        /\ Len(resultPackage.reports) > 0 => resultPackage.complianceStatus = "FAIL"

\* a result with a single low-risk report: score 99, FAIL
C9_Witness ==
    /\ Packaged
    /\ Len(resultPackage.reports) = 1
    /\ resultPackage.reports[1].holmdigitalInsight.diggRisk = "low"
    /\ resultPackage.score = 99
    /\ resultPackage.complianceStatus = "FAIL"

\* C10: score = max(0, 100 - (critical*25 + high*15 + medium*5 + low*1)) for
\* all tier counts; the score is an integer in [0,100], 100 for no violation
\* and 65 for 1 critical + 2 medium.
C10_ScoreFormula ==
    Packaged =>
        /\ resultPackage.stats.critical = TierCount("critical")
        /\ resultPackage.stats.high = TierCount("high")
        /\ resultPackage.stats.medium = TierCount("medium")
        /\ resultPackage.stats.low = TierCount("low")
        /\ resultPackage.score = IF Penalty >= 100 THEN 0 ELSE 100 - Penalty
        /\ resultPackage.score \in 0..100
        /\ Len(resultPackage.reports) = 0 => resultPackage.score = 100
        /\ ( /\ TierCount("critical") = 1 /\ TierCount("medium") = 2
             /\ TierCount("high") = 0 /\ TierCount("low") = 0 )
               => resultPackage.score = 65

\* a result for 1 critical + 2 medium reports, with score 65
C10_Witness ==
    /\ Packaged
    /\ TierCount("critical") = 1
    /\ TierCount("medium") = 2
    /\ Len(resultPackage.reports) = 3
    /\ resultPackage.score = 65

\* a result whose penalty exceeds 100, with the score held at 0
C10_ClampReached ==
    /\ Packaged
    /\ Penalty > 100
    /\ resultPackage.score = 0

\* the report lists the packaged list is compared with: the packaged list
\* extended by the reports of up to two more violations, and the report
\* lists of up to two violations
ExtraReportLists ==
    { enrichResults(extra, "en") : extra \in SeqsUpTo(ViolationPool, 2) }

ComparedReportLists ==
    { regulatoryReports \o extra : extra \in ExtraReportLists }
        \cup ExtraReportLists

\* the second list has at least as many reports in each risk tier
Dominates(second, first) ==
    /\ second.critical >= first.critical
    /\ second.high >= first.high
    /\ second.medium >= first.medium
    /\ second.low >= first.low

ScoreOfReports(reports) == generateResultPackage(reports, ScanUrl, Now).score

\* C11: the score is non-increasing in every tier count: of two report
\* lists of which the second has at least as many reports in each risk tier
\* as the first, the second's score is at most the first's, and neither
\* score is negative.
C11_ScoreMonotone ==
    Packaged =>
        \A other \in ComparedReportLists :
            LET otherStats == statsOf(other)
                otherScore == ScoreOfReports(other)
            IN  /\ resultPackage.score >= 0
                /\ otherScore >= 0
                /\ Dominates(otherStats, resultPackage.stats) =>
                      otherScore <= resultPackage.score
                /\ Dominates(resultPackage.stats, otherStats) =>
                      resultPackage.score <= otherScore

\* a packaged list with a positive score is dominated by a list with a
\* strictly lower score and by a list whose penalty is beyond 100; and a
\* packaged list already at 0 is dominated by a longer list, also at 0
C11_Witness ==
    /\ Packaged
    /\ \/ /\ resultPackage.score > 0
          /\ Len(resultPackage.reports) > 0
          /\ \E other \in ComparedReportLists :
                /\ Dominates(statsOf(other), resultPackage.stats)
                /\ ScoreOfReports(other) < resultPackage.score
                /\ ScoreOfReports(other) > 0
          /\ \E other \in ComparedReportLists :
                /\ Dominates(statsOf(other), resultPackage.stats)
                /\ weightedScore(statsOf(other)) > 100
                /\ ScoreOfReports(other) = 0
          /\ \E other \in ComparedReportLists :
                /\ Dominates(resultPackage.stats, statsOf(other))
                /\ ~Dominates(statsOf(other), resultPackage.stats)
                /\ ScoreOfReports(other) > resultPackage.score

(***************************************************************************)
(* The virtual DOM alone: build applied to documents and configs drawn      *)
(* from bounded sets.                                                       *)
(***************************************************************************)
InitVDom ==
    /\ ScannerIdle
    /\ options = [ s \in Scanners |-> ScannerOptions(Null) ]
    /\ ResolveIdle
    /\ CliIdle
    /\ \E document \in Documents, config \in VirtualDOMConfigs :
          vdom = [ pc |-> "ready", document |-> document, config |-> config,
                   root |-> Null ]

\* page.evaluate runs the script and resolves with the tree
Build ==
    /\ vdom.pc = "ready"
    /\ vdom' = [vdom EXCEPT !.pc = "built",
                            !.root = build(vdom.document, vdom.config)]
    /\ UNCHANGED scannerVars
    /\ UNCHANGED resolveVars
    /\ UNCHANGED cliVars

NextVDom == Build

SpecVDom == InitVDom /\ [][NextVDom]_vars

(***************************************************************************)
(* Properties of the virtual DOM (checked under SpecVDom).                  *)
(***************************************************************************)
\* a tree has been built by traverse (the document has a body)
Built == vdom.pc = "built" /\ vdom.document.body # Null

ElementChildren(node) ==
    SelectSeq(node.childNodes, LAMBDA n : n.nodeType = "ELEMENT_NODE")
LightChildren(v) == SelectSeq(v.children, LAMBDA ch : ~ch.isShadowRoot)
ShadowChildren(v) == SelectSeq(v.children, LAMBDA ch : ch.isShadowRoot)

\* the element hosts a shadow tree, of either mode
HostsShadow(node) ==
    /\ node.nodeType = "ELEMENT_NODE"
    /\ node.attachedShadow # Null

\* the page has an element that hosts a shadow tree of the mode
RECURSIVE HasHost(_, _)
HasHost(node, mode) ==
    \/ HostsShadow(node) /\ node.attachedShadow.mode = mode
    \/ HostsShadow(node) /\ HasHost(node.attachedShadow, mode)
    \/ \E i \in 1..Len(node.childNodes) :
          /\ node.childNodes[i].nodeType = "ELEMENT_NODE"
          /\ HasHost(node.childNodes[i], mode)

\* v is the virtual node of node, and below them every shadow host has one
\* shadow-root child, last and with the declared mode, and no other element
\* has one
RECURSIVE ShadowComposed(_, _)
ShadowComposed(node, v) ==
    /\ Len(LightChildren(v)) = Len(ElementChildren(node))
    /\ HostsShadow(node) =>
          /\ Len(ShadowChildren(v)) = 1
          /\ v.children[Len(v.children)].isShadowRoot
          /\ v.children[Len(v.children)].tagName = "#shadow-root"
          /\ "shadowMode" \in DOMAIN v.children[Len(v.children)]
          /\ v.children[Len(v.children)].shadowMode = node.attachedShadow.mode
          /\ ShadowComposed(node.attachedShadow, v.children[Len(v.children)])
    /\ ~HostsShadow(node) => Len(ShadowChildren(v)) = 0
    /\ \A i \in 1..Len(ElementChildren(node)) :
          i <= Len(LightChildren(v)) =>
              ShadowComposed(ElementChildren(node)[i], LightChildren(v)[i])

\* a page whose shadow hosts are all open is composed as stated, the shadow
\* root after the light-DOM children
C16_OpenHostsComposed ==
    /\ Built
    /\ ~maxDepthIsTruthy(vdom.config)
    /\ HasHost(vdom.document.body, "open")
    /\ ~HasHost(vdom.document.body, "closed")
    /\ ShadowComposed(vdom.document.body, vdom.root)
    /\ \E i \in 1..Len(vdom.root.children) :
          /\ Len(vdom.root.children[i].children) = 2
          /\ ~vdom.root.children[i].children[1].isShadowRoot
          /\ vdom.root.children[i].children[2].shadowMode = "open"

\* C16: for every element of the page that hosts a shadow tree, whether its
\* mode is open or closed, the element's virtual node has exactly one child
\* flagged as a shadow root (tag '#shadow-root'), after all of the element's
\* light-DOM children, with shadowMode = the declared mode; elements without
\* a shadow tree have no such child.
C16_ShadowRootComposition ==
    (Built /\ ~maxDepthIsTruthy(vdom.config)) =>
        ShadowComposed(vdom.document.body, vdom.root)

\* the depth of the deepest node of a virtual tree, its root at depth 0
RECURSIVE DepthOf(_)
DepthOf(v) ==
    IF Len(v.children) = 0 THEN 0
    ELSE LET deepest == CHOOSE i \in 1..Len(v.children) :
                            \A j \in 1..Len(v.children) :
                                DepthOf(v.children[j]) <= DepthOf(v.children[i])
         IN  1 + DepthOf(v.children[deepest])

\* the number of nodes of a virtual tree
RECURSIVE NodeCount(_)
RECURSIVE NodeCountOf(_, _)
NodeCountOf(children, k) ==
    IF k > Len(children) THEN 0
    ELSE NodeCount(children[k]) + NodeCountOf(children, k + 1)

NodeCount(v) == 1 + NodeCountOf(v.children, 1)

\* the number of element and shadow-root nodes of the composed tree below
\* and including node, itself at the depth given, that are at depth <= d
RECURSIVE ComposedCount(_, _, _)
RECURSIVE ComposedCountOf(_, _, _, _)
ComposedCountOf(childNodes, k, depth, d) ==
    IF k > Len(childNodes) THEN 0
    ELSE (IF childNodes[k].nodeType = "ELEMENT_NODE"
          THEN ComposedCount(childNodes[k], depth, d) ELSE 0)
         + ComposedCountOf(childNodes, k + 1, depth, d)

ComposedCount(node, depth, d) ==
    IF depth > d THEN 0
    ELSE 1 + ComposedCountOf(node.childNodes, 1, depth + 1, d)
           + (IF HostsShadow(node)
              THEN ComposedCount(node.attachedShadow, depth + 1, d) ELSE 0)

\* every child of every node of the tree is a virtual node
RECURSIVE NoPlaceholder(_)
NoPlaceholder(v) ==
    \A i \in 1..Len(v.children) :
        /\ v.children[i] # Null
        /\ "nodeId" \in DOMAIN v.children[i]
        /\ NoPlaceholder(v.children[i])

\* a tree built with a maxDepth of 1 or more, from a page without closed
\* shadow roots, is the composed tree cut below depth maxDepth
C17_PositiveDepthPrunes ==
    /\ Built
    /\ maxDepthIsTruthy(vdom.config)
    /\ ~HasHost(vdom.document.body, "closed")
    /\ DepthOf(vdom.root) = vdom.config.maxDepth
    /\ NodeCount(vdom.root) = ComposedCount(vdom.document.body, 0, vdom.config.maxDepth)
    /\ NodeCount(vdom.root) < ComposedCount(vdom.document.body, 0, 10)

\* C17: for every maxDepth d >= 0 given to build, the body at depth 0, the
\* tree returned has no node at depth greater than d, has every element and
\* shadow-root node of the composed tree at depth <= d, and has no
\* placeholder for a pruned node.
C17_MaxDepthPrunes ==
    (Built /\ "maxDepth" \in DOMAIN vdom.config) =>
        /\ DepthOf(vdom.root) <= vdom.config.maxDepth
        /\ NodeCount(vdom.root) =
              ComposedCount(vdom.document.body, 0, vdom.config.maxDepth)
        /\ NoPlaceholder(vdom.root)

(***************************************************************************)
(* The rule id of a report, by the path that produced it.                   *)
(***************************************************************************)
\* the rule the tag fallback takes for the violation: the first rule of the
\* table that shares a tag with it
FallbackRule(v) == getData(langRead)[FirstOf(TagHits(v))]

\* the rule id each report carries, by the path that resolved its violation
RuleIdByPath ==
    Resolved =>
        \A i \in 1..Len(axeResults.violations) :
            /\ IsTagResolved(ViolationAt(i)) =>
                  /\ ReportAt(i).ruleId = FallbackRule(ViolationAt(i)).ruleId
                  /\ ReportAt(i).ruleId # ViolationAt(i).id
            /\ (IsExact(ViolationAt(i)) \/ IsUnmatched(ViolationAt(i))) =>
                  ReportAt(i).ruleId = ViolationAt(i).id

\* violations that fall back to the same rule give reports with the same
\* rule id, and stats counts every report, whatever its rule id
SharedRuleCountedPerReport ==
    /\ Resolved =>
          \A i, j \in 1..Len(axeResults.violations) :
              ( /\ IsTagResolved(ViolationAt(i))
                /\ IsTagResolved(ViolationAt(j))
                /\ FallbackRule(ViolationAt(i)) = FallbackRule(ViolationAt(j)) ) =>
                  ReportAt(i).ruleId = ReportAt(j).ruleId
    /\ Packaged =>
          /\ resultPackage.stats.total = Len(axeResults.violations)
          /\ \A risk \in DiggRisks : resultPackage.stats[risk] = TierCount(risk)

\* C26: a report produced by tag fallback carries the ruleId of the matched
\* database rule, not the id of the violation that triggered it, whereas
\* exact-match and synthetic reports carry the violation's id; so two
\* different violations that fall back to the same rule yield two reports
\* with the same ruleId, each counted separately in stats.
C26_TagFallbackRuleId == RuleIdByPath /\ SharedRuleCountedPerReport

\* two different violations fell back to the same rule: the result holds
\* two reports with that rule's id, and stats counts two
C26_Witness ==
    /\ Packaged
    /\ Len(axeResults.violations) = 2
    /\ ViolationAt(1).id # ViolationAt(2).id
    /\ IsTagResolved(ViolationAt(1))
    /\ IsTagResolved(ViolationAt(2))
    /\ FallbackRule(ViolationAt(1)) = FallbackRule(ViolationAt(2))
    /\ ReportAt(1).ruleId = ReportAt(2).ruleId
    /\ ReportAt(1).ruleId \notin { ViolationAt(1).id, ViolationAt(2).id }
    /\ resultPackage.stats.total = 2

(***************************************************************************)
(* Resolution as loads and stores on the rule objects: enrichResults is     *)
(* called on violation lists and locales drawn from bounded sets, and then  *)
(* once more on the same list (a second scan of the same page).             *)
(***************************************************************************)
\* longest violation list resolved on the rule objects
MaxHeapViolations == 2

InitHeap ==
    /\ ScannerIdle
    /\ options = [ s \in Scanners |-> ScannerOptions(Null) ]
    /\ \E violationList \in SeqsUpTo(ViolationUniverse, MaxHeapViolations),
          lang \in Locales :
          /\ axeResults = [ violations |-> violationList ]
          /\ langRead = lang
    /\ regulatoryReports = << >>
    /\ resultPackage = Null
    /\ step = "violations"
    /\ storedRules = << >>
    /\ CliIdle
    /\ VDomIdle

\* enrichResults runs on the rule objects as they are, for the first time
\* or again: it returns its reports and leaves the rule objects it has
\* stored into
EnrichOnHeap ==
    /\ step \in {"violations", "reports"}
    /\ LET heap == enrichOnHeap(database, axeResults.violations, langRead)
       IN  /\ regulatoryReports' = heap.reports
           /\ storedRules' = storesOf(heap.data)
    /\ step' = IF step = "violations" THEN "reports" ELSE "again"
    /\ UNCHANGED << axeResults, langRead, resultPackage >>
    /\ UNCHANGED scannerVars
    /\ UNCHANGED cliVars
    /\ UNCHANGED vdomVars

SpecHeap == InitHeap /\ [][EnrichOnHeap]_vars

(***************************************************************************)
(* The rule tables across resolutions (checked under SpecHeap).             *)
(***************************************************************************)
ResolvedAgain == step = "again"

\* every rule object has the fields and values it was loaded with, and none
\* carries the overlay of a report
RulesAsLoaded ==
    /\ database = Tables
    /\ \A lang \in Locales :
          \A k \in 1..Len(database[lang]) :
              /\ "failingNodes" \notin DOMAIN database[lang][k]
              /\ "reasoning" \notin DOMAIN database[lang][k].holmdigitalInsight

\* reports resolved from the same rule each carry the overlay of their own
\* violation
OverlayOfOwnViolation ==
    Resolved =>
        \A i, j \in 1..Len(axeResults.violations) :
            ( /\ ruleOfReport(database, ViolationAt(i), langRead) # << >>
              /\ ruleOfReport(database, ViolationAt(i), langRead)
                    = ruleOfReport(database, ViolationAt(j), langRead) ) =>
                /\ ReportAt(j).holmdigitalInsight.reasoning = ViolationAt(j).help
                /\ ReportAt(j).failingNodes = failingNodes(ViolationAt(j))

\* a resolution changes no rule object, and resolving the same violations
\* again gives the reports of the first resolution
SameReportsAgain ==
    /\ storedRules' = storedRules
    /\ database' = database
    /\ (step = "reports" /\ step' = "again") =>
          regulatoryReports' = regulatoryReports

\* C27: resolution leaves the rule database unchanged: after enriching any
\* list of violations every rule, its insight object included, has exactly
\* the fields and values it had before, so the reasoning and the failing
\* nodes of one report never appear on the rule or on another report
\* resolved from the same rule, and resolving the same violations again
\* yields the same reports.
C27_DatabaseUnchanged ==
    []RulesAsLoaded /\ []OverlayOfOwnViolation /\ [][SameReportsAgain]_vars

\* two violations with different help texts were resolved from the same
\* rule, twice over: each report has its own reasoning and the rule none
C27_Witness ==
    /\ ResolvedAgain
    /\ Len(axeResults.violations) >= 2
    /\ ruleOfReport(database, ViolationAt(1), langRead) # << >>
    /\ ruleOfReport(database, ViolationAt(1), langRead)
          = ruleOfReport(database, ViolationAt(2), langRead)
    /\ ViolationAt(1).help # ViolationAt(2).help
    /\ ReportAt(1).holmdigitalInsight.reasoning = ViolationAt(1).help
    /\ ReportAt(2).holmdigitalInsight.reasoning = ViolationAt(2).help
    /\ regulatoryReports = enrichResults(axeResults.violations, langRead)
    /\ database = Tables

(***************************************************************************)
(* Node ids of a built tree (checked under SpecVDom).                       *)
(***************************************************************************)
\* build has resolved, for a document with a body or without
Returned == vdom.pc = "built"

\* the node ids of the tree in depth-first pre-order of its children lists
RECURSIVE PreOrderIds(_)
RECURSIVE PreOrderIdsOf(_, _)
PreOrderIdsOf(children, k) ==
    IF k > Len(children) THEN << >>
    ELSE PreOrderIds(children[k]) \o PreOrderIdsOf(children, k + 1)

PreOrderIds(v) == << v.nodeId >> \o PreOrderIdsOf(v.children, 1)

\* the ids are vn-1, vn-2, ... in pre-order, without a gap or a repetition
NumberedInPreOrder(v) ==
    \A i \in 1..Len(PreOrderIds(v)) : PreOrderIds(v)[i] = "vn-" \o ToString(i)

\* every node of a children list names the node holding the list as parent
RECURSIVE ParentLinked(_)
ParentLinked(v) ==
    \A i \in 1..Len(v.children) :
        /\ v.children[i].parentId = v.nodeId
        /\ ParentLinked(v.children[i])

HasNoParentId(v) == "parentId" \notin DOMAIN v \/ v.parentId = "undefined"

\* C28 as stated: in every tree returned by build, node ids are unique and
\* are vn-1, vn-2, ... in depth-first pre-order, from a counter that starts
\* anew at each build and is not consumed by pruned or skipped nodes; the
\* root has no parentId and every other node's parentId is the nodeId of
\* the node whose children list contains it.
C28_NodeIds ==
    Returned =>
        /\ NumberedInPreOrder(vdom.root)
        /\ HasNoParentId(vdom.root)
        /\ ParentLinked(vdom.root)

\* C28 (amended): in every tree build returns for a document that has a
\* body, node ids are vn-1, vn-2, ... in depth-first pre-order, pruned and
\* skipped nodes taking no id, the root has no parentId and every other
\* node's parentId is the nodeId of the node whose children list contains
\* it; for a document without a body the tree is the single node
\* 'root-fallback', without parentId.
C28_NodeIdsOfBodyTrees ==
    /\ Built =>
          /\ NumberedInPreOrder(vdom.root)
          /\ HasNoParentId(vdom.root)
          /\ ParentLinked(vdom.root)
    /\ (Returned /\ vdom.document.body = Null) =>
          /\ PreOrderIds(vdom.root) = << "root-fallback" >>
          /\ HasNoParentId(vdom.root)

\* a tree was built from a body with a loose text node and a chain of
\* elements cut at depth 2, followed by an open shadow host: the text node
\* and the pruned elements took no id, and the ids run on into the host's
\* shadow tree
C28_Witness ==
    /\ Built
    /\ "maxDepth" \in DOMAIN vdom.config
    /\ vdom.config.maxDepth = 2
    /\ vdom.document.body.childNodes = << DeepChain, OpenHost >>
    /\ PreOrderIds(vdom.root) = << "vn-1", "vn-2", "vn-3", "vn-4", "vn-5", "vn-6" >>
    /\ vdom.root.children[2].children[2].isShadowRoot
    /\ vdom.root.children[2].children[2].nodeId = "vn-6"
    /\ vdom.root.children[2].children[2].parentId = "vn-4"

\* the tree of a document without a body
C28_FallbackRoot ==
    /\ Returned
    /\ vdom.document.body = Null
    /\ vdom.root.nodeId = "root-fallback"

====
